---- MODULE Spec2Model ----
(***************************************************************************)
(* Meeting-minutes bot: the pending-task-set store (firestoreService.ts),  *)
(* the chat card handlers that resolve candidates (handleChatInteraction   *)
(* .ts) and the ingestion function processTranscript.                      *)
(*                                                                         *)
(* Every `await` of a handler is one step, so that handlers interleave     *)
(* exactly where the JavaScript event loop and concurrent function         *)
(* instances let them interleave.  Indices are 1-based here: index k of    *)
(* the model is tasks[k-1] of the code, 0 and Len+1 are out of range.      *)
(* cleanupOldPendingTasks is never called by the repository, so documents  *)
(* are never deleted in this model.                                        *)
(***************************************************************************)
EXTENDS Integers, Sequences, FiniteSets, TLC

\* ---------------------------------------------------------------- bounds
MaxTasks == 2        \* candidates per pending set
MaxExternal == 2     \* tasks ever created in the task tracker
MaxClicks == 2       \* card clicks received in a run
MaxEvents == 2       \* Drive notifications delivered in a run
NumFiles == 1        \* distinct Drive file ids

\* A card click or a Drive notification is handled by a function instance;
\* two instances of a function may be alive at once, and a new call takes the
\* lowest free one.
Handlers == {1, 2}
Deliveries == {1, 2}
Files == 1..NumFiles
\* Each delivery stores at most one set; the last id is never used.
SetIds == 1..(MaxEvents + 1)
Titles == {"orig", "edited"}
FormInputs == {"", "edited"}
Ops == {"createTask", "dismissTask", "createAllTasks", "dismissAllTasks"}

VARIABLES
  store,      \* the pending-tasks collection: set id -> document
  lock,       \* set id -> handler whose transaction holds the document, or 0
  clickup,    \* the tasks created in the task tracker, in creation order
  notified,   \* set ids for which approval cards were sent
  hs,         \* handler instance -> its locals and position
  ps,         \* processTranscript instance -> its locals and position
  clicks,     \* card clicks received so far
  events,     \* Drive notifications delivered so far
  ex,         \* the extractTasks call in progress: its frames and the service calls made
  transcript, \* splitTranscriptIntoChunks: its argument
  chunks,     \* splitTranscriptIntoChunks: its result
  analyses,   \* mergeChunkResults: its argument
  merged,     \* mergeChunkResults: its result
  expression, \* resolveDateExpression: the expression
  meetingDate,\* resolveDateExpression: the reference date
  resolved,   \* resolveDateExpression: its result
  called,     \* the extraction function that has been applied to its argument, or ""
  rawContent, \* parseTranscript: the content of the file, its lines
  parsed,     \* parseTranscript: its result
  watchers,   \* the drive-watchers collection: folder id -> document
  channels,   \* the watch channels that are active at Drive
  ws,         \* the setupFolderWatcher call in progress: its locals and position
  now,        \* Date.now()
  rt          \* the withRetry call in progress: its locals and what it did so far

\* The variables of the extraction functions; approval and ingestion leave
\* them alone.
fnVars == <<ex, transcript, chunks, analyses, merged, expression, meetingDate,
            resolved, called>>

\* The variables of the transcript parser, of the folder watchers and of
\* withRetry.
auxVars == <<rawContent, parsed, watchers, channels, ws, now, rt>>

vars == <<store, lock, clickup, notified, hs, ps, clicks, events, fnVars, auxVars>>

\* ------------------------------------------------------------- documents
NoDoc == [exists |-> FALSE, fileId |-> 0, status |-> "none",
          confidential |-> FALSE, tasks |-> <<>>, analysis |-> <<>>]

\* source_quote of the i-th candidate of an analysis: the transcript passage it
\* was extracted from.
Quote(i) == <<"quote", i>>

ConfidentialMarker == <<"[Confidential - see transcript]">>

\* The analysis object as storePendingTasks receives it: the source quotes of
\* the tasks the extraction returned, which no step of processTranscript
\* changes (tasksWithConfig holds copies of the tasks).
StoredAnalysis(tasks) == [k \in DOMAIN tasks |-> Quote(k)]

\* A candidate of tasksWithConfig: the title, description and source quote the
\* extraction returned; clickupTaskId (cid) and dismissed are not set yet.
NewTask == [title |-> "orig", description |-> "description",
            source_quote |-> Quote(1), confidence |-> 10,
            extraction_type |-> "explicit", cid |-> 0, dismissed |-> FALSE]

NewTasks(n) == [i \in 1..n |-> [NewTask EXCEPT !.source_quote = Quote(i)]]

\* Variant: the description is kept.
RedactQuoteOnly(task) == [task EXCEPT !.source_quote = ConfidentialMarker]

\* if (folderConfig.confidential) tasksWithConfig.forEach(task => {
\*   task.source_quote = '[Confidential - see transcript]';
\*   task.description = task.title })

Redact(task) ==
  [task EXCEPT !.source_quote = ConfidentialMarker, !.description = task.title]

\* buildTaskCard: the widgets that show text of the candidate; the quote is
\* shown unless it includes '[Confidential'.
buildTaskCard(task) ==
  [title |-> task.title,
   source |-> IF task.source_quote # ConfidentialMarker
                THEN <<task.source_quote>> ELSE <<>>]

\* descriptionParts of handleCreateTask and handleCreateAllTasks:
\* updatedTask.description || updatedTask.title, then the quote unless it
\* includes '[Confidential'.
BuildDescription(updatedTask) ==
  [text |-> IF updatedTask.description # "" THEN updatedTask.description
            ELSE updatedTask.title,
   source |-> IF updatedTask.source_quote # ConfidentialMarker
                THEN <<updatedTask.source_quote>> ELSE <<>>]

\* t.clickupTaskId || t.dismissed
IsResolved(t) == t.cid # 0 \/ t.dismissed

areAllTasksResolved(tasks) == \A i \in DOMAIN tasks : IsResolved(tasks[i])

\* Variant: the query also filters on status 'pending'.
isFileAlreadyProcessedOldFilter(fileId) ==
  \E s \in SetIds : store[s].exists /\ store[s].fileId = fileId
                    /\ store[s].status = "pending"

\* .where('fileId', '==', fileId).limit(1): any status
isFileAlreadyProcessed(fileId) ==
  \E s \in SetIds : store[s].exists /\ store[s].fileId = fileId

\* uuidv4(): an id no document has
FreshSetId == Cardinality({s \in SetIds : store[s].exists}) + 1

\* Variant: the id is written to every candidate.
SetCreatedAll(tasks, idx, cid) ==
  [i \in DOMAIN tasks |-> [tasks[i] EXCEPT !.cid = cid]]

\* (tasks[taskIndex]).clickupTaskId = clickupTaskId
SetCreated(tasks, idx, cid) == [tasks EXCEPT ![idx].cid = cid]

\* Variant: the dismissed candidate is removed from the array.
SetDismissedRemoved(tasks, idx) ==
  SubSeq(tasks, 1, idx - 1) \o SubSeq(tasks, idx + 1, Len(tasks))

\* (tasks[taskIndex]).dismissed = true
SetDismissed(tasks, idx) == [tasks EXCEPT ![idx].dismissed = TRUE]

\* { ...tasks[taskIndex], ...updates }: a key present in updates wins; the
\* keys clickupTaskId and dismissed exist only once they were set.
MergeTask(stored, upd) ==
  [upd EXCEPT !.cid = IF upd.cid # 0 THEN upd.cid ELSE stored.cid,
              !.dismissed = upd.dismissed \/ stored.dismissed]

\* Variant: completion is not re-evaluated.
StatusAfterKeep(status, tasks) == status

\* if (areAllTasksResolved(tasks)) updates.status = 'completed'

StatusAfter(status, tasks) ==
  IF areAllTasksResolved(tasks) THEN "completed" ELSE status

\* Variant: read and write without a transaction.
LockFreeNoTxn(s) == TRUE

\* firestore.runTransaction: the document read by transaction.get stays
\* locked until the transaction ends; other writers of the document wait.

LockFree(s) == lock[s] = 0

\* applyFormEdits: only the title input is modelled
applyFormEdits(task, form) ==
  IF form # "" THEN [task EXCEPT !.title = form] ELSE task

\* const updatedTask = applyFormEdits(task, index, formInputs): of the task
\* read by handleCreateTask, or of pending.tasks[i] in the bulk loop
UpdatedTask(r) ==
  applyFormEdits(IF r.op = "createAllTasks" THEN r.pending[r.idx] ELSE r.task[1],
                 r.form)

\* ---------------------------------------------------------------- locals
IdleH == [op |-> "idle", pc |-> "idle", sid |-> 0, idx |-> 0, form |-> "",
          task |-> <<>>, pending |-> <<>>, tx |-> <<>>, ext |-> 0,
          results |-> <<>>, err |-> ""]

IdleD == [pc |-> "idle", file |-> 0, n |-> 0, sid |-> 0, fetched |-> FALSE,
          confidential |-> FALSE, analysis |-> <<>>, filtered |-> <<>>,
          out |-> ""]

\* No extractTasks call is in progress.
IdleE == [pc |-> "idle", content |-> <<>>, stack |-> <<>>, calls |-> <<>>,
          result |-> <<>>]

\* ------------------------------------------------------------ driveService
\* The configured folders (getAllFolderIds).
Folders == {1, 2}

\* doc(folderId) of the drive-watchers collection does not exist.
NoWatcher == [exists |-> FALSE, channelId |-> <<>>]

\* No setupFolderWatcher call is in progress.
IdleW == [pc |-> "idle", folderId |-> 0, channelId |-> <<>>, stopped |-> <<>>,
          out |-> ""]

\* No withRetry call is in progress.
IdleR == [pc |-> "idle", maxRetries |-> 0, attempt |-> 0, log |-> <<>>,
          waits |-> <<>>, lastError |-> <<>>, out |-> <<>>]

\* No transcript is being parsed, no folder is watched yet, nothing is retried.
AuxIdle ==
  /\ rawContent = <<>> /\ parsed = <<>>
  /\ watchers = [f \in Folders |-> NoWatcher]
  /\ channels = {}
  /\ ws = IdleW
  /\ now = 0
  /\ rt = IdleR

\* No extraction function has been called.
FnIdle ==
  /\ ex = IdleE
  /\ transcript = <<>> /\ chunks = <<>>
  /\ analyses = <<>> /\ merged = <<>>
  /\ expression = <<>> /\ meetingDate = <<>> /\ resolved = <<>>
  /\ called = ""
  /\ AuxIdle

Init ==
  /\ store = [s \in SetIds |-> NoDoc]
  /\ lock = [s \in SetIds |-> 0]
  /\ clickup = <<>>
  /\ notified = {}
  /\ hs = [h \in Handlers |-> IdleH]
  /\ ps = [d \in Deliveries |-> IdleD]
  /\ clicks = 0
  /\ events = 0
  /\ FnIdle


\* ------------------------------------------------------- processTranscript
\* appConfig.openai.confidenceThreshold, in tenths
confidenceThreshold == 7

\* Variant: every task of the analysis is kept.
ConfidenceFilterNone(tasks) == tasks

\* processTranscript: task.extraction_type === 'explicit' ||
\* task.confidence >= confidenceThreshold
ConfidenceFilter(tasks) ==
  LET Passes(task) == task.extraction_type = "explicit"
                      \/ task.confidence >= confidenceThreshold
  IN SelectSeq(tasks, Passes)

\* The CloudEvent is parsed and names a file id.
PTStart(d) ==
  /\ ps[d].pc = "idle"
  /\ \A e \in Deliveries : e < d => ps[e].pc # "idle"
  /\ events < MaxEvents
  /\ events' = events + 1
  /\ \E f \in Files : ps' = [ps EXCEPT ![d] = [IdleD EXCEPT !.pc = "check", !.file = f]]
  /\ UNCHANGED <<store, lock, clickup, notified, hs, clicks, fnVars, auxVars>>

\* Variant: the result of the check is ignored.
PTCheckNoSkip(d) ==
  /\ ps[d].pc = "check"
  /\ ps' = [ps EXCEPT ![d] = [@ EXCEPT !.pc = "fetch"]]
  /\ UNCHANGED <<store, lock, clickup, notified, hs, clicks, events, fnVars, auxVars>>

\* const alreadyProcessed = await isFileAlreadyProcessed(fileId); if so, return
PTCheck(d) ==
  /\ ps[d].pc = "check"
  /\ ps' = [ps EXCEPT ![d] =
              IF isFileAlreadyProcessed(ps[d].file)
                THEN [@ EXCEPT !.pc = "done", !.out = "skipped"]
                ELSE [@ EXCEPT !.pc = "fetch"]]
  /\ UNCHANGED <<store, lock, clickup, notified, hs, clicks, events, fnVars, auxVars>>

\* getFileFolderId, getFolderConfig, getFileMetadata, isValidTranscript,
\* getFileContent and parseTranscript: they touch no state of the store, so
\* they are one step.  A Drive call may throw; a file that is no transcript
\* makes the function return.  The folder of the file is confidential or not.
PTFetch(d) ==
  /\ ps[d].pc = "fetch"
  /\ \E r \in {"ok", "invalid", "failed"}, c \in BOOLEAN :
       /\ r # "ok" => ~c
       /\ ps' = [ps EXCEPT ![d] =
                   IF r = "ok" THEN [@ EXCEPT !.pc = "extract", !.fetched = TRUE,
                                              !.confidential = c]
                   ELSE [@ EXCEPT !.pc = "done", !.fetched = TRUE, !.out = r]]
  /\ UNCHANGED <<store, lock, clickup, notified, hs, clicks, events, fnVars, auxVars>>

\* extractTasks throws, or returns an analysis of which n tasks pass the
\* confidence filter (explicit ones here; extractTasksEnd is this step with
\* the analyses of the service); with no task left the function returns.
PTExtract(d) ==
  /\ ps[d].pc = "extract"
  /\ \E n \in (-1)..MaxTasks :
       ps' = [ps EXCEPT ![d] =
                IF n = -1 THEN [@ EXCEPT !.pc = "done", !.out = "failed"]
                ELSE IF n = 0 THEN [@ EXCEPT !.pc = "done", !.out = "empty"]
                ELSE LET tasks == [i \in 1..n |-> [confidence |-> 10,
                                                    extraction_type |-> "explicit"]]
                     IN [@ EXCEPT !.pc = "store", !.n = n, !.analysis = tasks,
                                  !.filtered = ConfidenceFilter(tasks)]]
  /\ UNCHANGED <<store, lock, clickup, notified, hs, clicks, events, fnVars, auxVars>>

\* The candidates handed to storePendingTasks and to the cards: redacted when
\* the folder is confidential.
tasksWithConfig(filteredTasks, confidential) ==
  [i \in DOMAIN filteredTasks |->
     LET task == [NewTask EXCEPT !.source_quote = Quote(i),
                                 !.confidence = filteredTasks[i].confidence,
                                 !.extraction_type = filteredTasks[i].extraction_type]
     IN IF confidential THEN Redact(task) ELSE task]

\* storePendingTasks: doc(uuidv4()).set({...data, status: 'pending'})
storePendingTasks(d) ==
  /\ ps[d].pc = "store"
  /\ store' = [store EXCEPT ![FreshSetId] =
                 [exists |-> TRUE, fileId |-> ps[d].file, status |-> "pending",
                  confidential |-> ps[d].confidential,
                  analysis |-> StoredAnalysis(ps[d].analysis),
                  tasks |-> tasksWithConfig(ps[d].filtered, ps[d].confidential)]]
  /\ ps' = [ps EXCEPT ![d] = [@ EXCEPT !.pc = "notify", !.sid = FreshSetId]]
  /\ UNCHANGED <<lock, clickup, notified, hs, clicks, events, fnVars, auxVars>>

\* sendTaskApprovalCards / sendDMToUser with the new pendingId
PTNotify(d) ==
  /\ ps[d].pc = "notify"
  /\ notified' = notified \union {ps[d].sid}
  /\ ps' = [ps EXCEPT ![d] = [@ EXCEPT !.pc = "done", !.out = "stored"]]
  /\ UNCHANGED <<store, lock, clickup, hs, clicks, events, fnVars, auxVars>>

\* The function instance ends.
PTReturn(d) ==
  /\ ps[d].pc = "done"
  /\ ps' = [ps EXCEPT ![d] = IdleD]
  /\ UNCHANGED <<store, lock, clickup, notified, hs, clicks, events, fnVars, auxVars>>

\* ---------------------------------------------------- handleChatInteraction
\* The next index above i whose snapshot task is neither created nor
\* dismissed (the bulk loops `continue` over the others), or Len+1.
NextEligible(pending, i) ==
  LET later == {j \in DOMAIN pending : j > i /\ ~IsResolved(pending[j])}
  IN IF later = {} THEN Len(pending) + 1
     ELSE CHOOSE j \in later : \A k \in later : j <= k

\* The handler's catch block: the error is reported in the response.
Fail(r, e) == [r EXCEPT !.pc = "done", !.err = e, !.tx = <<>>]

\* for (let i = 0; ...; i++) of the bulk handlers, then the final status update
Advance(r) ==
  LET j == NextEligible(r.pending, r.idx)
  IN [r EXCEPT !.idx = j, !.ext = 0, !.tx = <<>>,
               !.pc = IF j > Len(r.pending) THEN "fin"
                      ELSE IF r.op = "createAllTasks" THEN "create" ELSE "mark"]

\* The inner try/catch of handleCreateAllTasks records the failure and goes on;
\* the other handlers have one catch around the whole body.
OnItemError(r, e) ==
  IF r.op = "createAllTasks"
    THEN Advance([r EXCEPT !.results[r.idx] = "fail"])
    ELSE Fail(r, e)

\* Variant: the index is not checked.
TxnErrorNoIndexCheck(r) ==
  IF ~store[r.sid].exists THEN "NotFound" ELSE ""

\* What transaction.get and the two checks of a store function find.

TxnError(r) ==
  IF ~store[r.sid].exists THEN "NotFound"
  ELSE IF r.idx \notin DOMAIN store[r.sid].tasks THEN "InvalidIndex"
  ELSE ""

\* A card click arrives: handleCardClick dispatches on actionName.
\* The pendingId of a click names a stored set or no set at all (all missing
\* ids behave alike); its taskIndex is any index from one below to one above
\* the indices of that set.
Targets == {s \in SetIds : s <= FreshSetId}

IndexInputs(s) == 0..(Len(store[s].tasks) + 1)

HStart(h, forms) ==
  /\ hs[h].pc = "idle"
  /\ \A g \in Handlers : g < h => hs[g].pc # "idle"
  /\ clicks < MaxClicks
  /\ clicks' = clicks + 1
  /\ \E op \in Ops, s \in Targets, f \in forms : \E k \in IndexInputs(s) :
       /\ op \in {"createAllTasks", "dismissAllTasks"} => k = 0
       /\ op \in {"dismissTask", "dismissAllTasks"} => f = ""
       /\ hs' = [hs EXCEPT ![h] =
                   [IdleH EXCEPT !.op = op, !.sid = s, !.idx = k, !.form = f,
                                 !.pc = IF op = "dismissTask" THEN "mark" ELSE "get"]]
  /\ UNCHANGED <<store, lock, clickup, notified, ps, events, fnVars, auxVars>>

\* handleCreateTask: getPendingTasks, then pending.tasks[index]
CreateTaskGet(h) ==
  LET r == hs[h]  doc == store[r.sid] IN
  /\ r.op = "createTask" /\ r.pc = "get"
  /\ hs' = [hs EXCEPT ![h] =
              IF ~doc.exists THEN Fail(r, "NoData")
              ELSE IF r.idx \notin DOMAIN doc.tasks THEN Fail(r, "NoTask")
              ELSE [r EXCEPT !.task = <<doc.tasks[r.idx]>>, !.pc = "upd"]]
  /\ UNCHANGED <<store, lock, clickup, notified, ps, clicks, events, fnVars, auxVars>>

\* handleCreateAllTasks / handleDismissAllTasks: getPendingTasks
BulkGet(h) ==
  LET r == hs[h]  doc == store[r.sid] IN
  /\ r.op \in {"createAllTasks", "dismissAllTasks"} /\ r.pc = "get"
  /\ hs' = [hs EXCEPT ![h] =
              IF ~doc.exists THEN Fail(r, "NoData")
              ELSE IF r.op = "createAllTasks"
                THEN [r EXCEPT !.pending = doc.tasks, !.pc = "proc",
                               !.results = [i \in DOMAIN doc.tasks |-> "none"]]
                ELSE Advance([r EXCEPT !.pending = doc.tasks])]
  /\ UNCHANGED <<store, lock, clickup, notified, ps, clicks, events, fnVars, auxVars>>

\* updateTaskDetails: transaction.get and the checks
updateTaskDetailsBegin(h) ==
  LET r == hs[h] IN
  /\ r.pc = "upd"
  /\ \/ /\ hs' = [hs EXCEPT ![h] = Fail(r, "Unavailable")]
        /\ UNCHANGED lock
     \/ /\ LockFree(r.sid)
        /\ IF TxnError(r) # ""
             THEN hs' = [hs EXCEPT ![h] = Fail(r, TxnError(r))] /\ UNCHANGED lock
             ELSE /\ hs' = [hs EXCEPT ![h] =
                             [r EXCEPT !.tx = store[r.sid].tasks, !.pc = "updc"]]
                  /\ lock' = [lock EXCEPT ![r.sid] = h]
  /\ UNCHANGED <<store, clickup, notified, ps, clicks, events, fnVars, auxVars>>

\* updateTaskDetails: tasks[taskIndex] = {...tasks[taskIndex], ...updates};
\* transaction.update(docRef, {tasks})
updateTaskDetailsCommit(h) ==
  LET r == hs[h]
      upd == UpdatedTask(r)
      tasks == [r.tx EXCEPT ![r.idx] = MergeTask(r.tx[r.idx], upd)]
  IN
  /\ r.pc = "updc"
  /\ store' = [store EXCEPT ![r.sid].tasks = tasks]
  /\ lock' = [lock EXCEPT ![r.sid] = 0]
  /\ hs' = [hs EXCEPT ![h] = [r EXCEPT !.tx = <<>>, !.pc = "create"]]
  /\ UNCHANGED <<clickup, notified, ps, clicks, events, fnVars, auxVars>>

\* Variant: a bulk creation goes on to the next candidate before it marks.
createTaskNoMark(h) ==
  LET r == hs[h] IN
  /\ r.pc = "create"
  /\ \/ /\ hs' = [hs EXCEPT ![h] = OnItemError(r, "ClickUp")]
        /\ UNCHANGED clickup
     \/ /\ Len(clickup) < MaxExternal
        /\ clickup' = Append(clickup, [sid |-> r.sid, idx |-> r.idx,
                                       description |-> BuildDescription(UpdatedTask(r))])
        /\ hs' = [hs EXCEPT ![h] =
                    IF r.op = "createAllTasks"
                      THEN Advance([r EXCEPT !.results[r.idx] = "ok"])
                      ELSE [r EXCEPT !.ext = Len(clickup) + 1, !.pc = "mark"]]
  /\ UNCHANGED <<store, lock, notified, ps, clicks, events, fnVars, auxVars>>

\* Variant: the handler goes on to mark the candidate when the creation failed.
createTaskMarkOnError(h) ==
  LET r == hs[h] IN
  /\ r.pc = "create"
  /\ \/ /\ hs' = [hs EXCEPT ![h] = [r EXCEPT !.ext = Len(clickup) + 1, !.pc = "mark"]]
        /\ UNCHANGED clickup
     \/ /\ Len(clickup) < MaxExternal
        /\ clickup' = Append(clickup, [sid |-> r.sid, idx |-> r.idx,
                                       description |-> BuildDescription(UpdatedTask(r))])
        /\ hs' = [hs EXCEPT ![h] = [r EXCEPT !.ext = Len(clickup) + 1, !.pc = "mark"]]
  /\ UNCHANGED <<store, lock, notified, ps, clicks, events, fnVars, auxVars>>

\* createTask of the task tracker with the description built from the
\* updated task: a new task and its id, or an error
createTask(h) ==
  LET r == hs[h] IN
  /\ r.pc = "create"
  /\ \/ /\ hs' = [hs EXCEPT ![h] = OnItemError(r, "ClickUp")]
        /\ UNCHANGED clickup
     \/ /\ Len(clickup) < MaxExternal
        /\ clickup' = Append(clickup, [sid |-> r.sid, idx |-> r.idx,
                                       description |-> BuildDescription(UpdatedTask(r))])
        /\ hs' = [hs EXCEPT ![h] = [r EXCEPT !.ext = Len(clickup) + 1, !.pc = "mark"]]
  /\ UNCHANGED <<store, lock, notified, ps, clicks, events, fnVars, auxVars>>

\* markTaskAsCreated / markTaskAsDismissed: transaction.get and the checks
markTaskBegin(h) ==
  LET r == hs[h] IN
  /\ r.pc = "mark"
  /\ \/ /\ hs' = [hs EXCEPT ![h] = OnItemError(r, "Unavailable")]
        /\ UNCHANGED lock
     \/ /\ LockFree(r.sid)
        /\ IF TxnError(r) # ""
             THEN hs' = [hs EXCEPT ![h] = OnItemError(r, TxnError(r))] /\ UNCHANGED lock
             ELSE /\ hs' = [hs EXCEPT ![h] =
                             [r EXCEPT !.tx = store[r.sid].tasks, !.pc = "markc"]]
                  /\ lock' = [lock EXCEPT ![r.sid] = h]
  /\ UNCHANGED <<store, clickup, notified, ps, clicks, events, fnVars, auxVars>>

\* The handler goes on after its mark call returned.
AfterMark(r) ==
  IF r.op = "createAllTasks" THEN Advance([r EXCEPT !.results[r.idx] = "ok"])
  ELSE IF r.op = "dismissAllTasks" THEN Advance(r)
  ELSE [r EXCEPT !.tx = <<>>, !.pc = "done"]

\* markTaskAsCreated: set clickupTaskId, re-evaluate completion, transaction.update
markTaskAsCreated(h) ==
  LET r == hs[h]
      tasks == SetCreated(r.tx, r.idx, r.ext)
  IN
  /\ r.pc = "markc" /\ r.op \in {"createTask", "createAllTasks"}
  /\ store' = [store EXCEPT ![r.sid].tasks = tasks,
                            ![r.sid].status = StatusAfter(@, tasks)]
  /\ lock' = [lock EXCEPT ![r.sid] = 0]
  /\ hs' = [hs EXCEPT ![h] = AfterMark(r)]
  /\ UNCHANGED <<clickup, notified, ps, clicks, events, fnVars, auxVars>>

\* markTaskAsDismissed: set dismissed, re-evaluate completion, transaction.update
markTaskAsDismissed(h) ==
  LET r == hs[h]
      tasks == SetDismissed(r.tx, r.idx)
  IN
  /\ r.pc = "markc" /\ r.op \in {"dismissTask", "dismissAllTasks"}
  /\ store' = [store EXCEPT ![r.sid].tasks = tasks,
                            ![r.sid].status = StatusAfter(@, tasks)]
  /\ lock' = [lock EXCEPT ![r.sid] = 0]
  /\ hs' = [hs EXCEPT ![h] = AfterMark(r)]
  /\ UNCHANGED <<clickup, notified, ps, clicks, events, fnVars, auxVars>>

\* updatePendingTasksStatus: a plain update of the status field; it waits for a
\* transaction on the document.
updatePendingTasksStatus(s, status) ==
  /\ LockFree(s)
  /\ store' = [store EXCEPT ![s].status = status]

\* handleCreateAllTasks: await updatePendingTasksStatus(pendingId, 'processing')
BulkProcessing(h) ==
  LET r == hs[h] IN
  /\ r.pc = "proc"
  /\ updatePendingTasksStatus(r.sid, "processing")
  /\ hs' = [hs EXCEPT ![h] = Advance(r)]
  /\ UNCHANGED <<lock, clickup, notified, ps, clicks, events, fnVars, auxVars>>

\* both bulk handlers: await updatePendingTasksStatus(pendingId, 'completed')
BulkCompleted(h) ==
  LET r == hs[h] IN
  /\ r.pc = "fin"
  /\ updatePendingTasksStatus(r.sid, "completed")
  /\ hs' = [hs EXCEPT ![h] = [r EXCEPT !.pc = "done"]]
  /\ UNCHANGED <<lock, clickup, notified, ps, clicks, events, fnVars, auxVars>>

\* res.json(...): the response is sent and the instance ends.
Respond(h) ==
  /\ hs[h].pc = "done"
  /\ hs' = [hs EXCEPT ![h] = IdleH]
  /\ UNCHANGED <<store, lock, clickup, notified, ps, clicks, events, fnVars, auxVars>>

HandlerStep(h, forms) ==
  \/ HStart(h, forms) \/ CreateTaskGet(h) \/ BulkGet(h)
  \/ updateTaskDetailsBegin(h) \/ updateTaskDetailsCommit(h)
  \/ createTask(h) \/ markTaskBegin(h)
  \/ markTaskAsCreated(h) \/ markTaskAsDismissed(h)
  \/ BulkProcessing(h) \/ BulkCompleted(h) \/ Respond(h)

DeliveryStep(d) ==
  \/ PTStart(d) \/ PTCheck(d) \/ PTFetch(d) \/ PTExtract(d)
  \/ storePendingTasks(d) \/ PTNotify(d) \/ PTReturn(d)

\* What approval does to a stored set, as ingestion sees it: the handlers move
\* its status to 'processing' and to 'completed'.
ApprovalStatus ==
  /\ \E s \in SetIds, status \in {"processing", "completed"} :
       /\ store[s].exists
       /\ store[s].status # status
       /\ updatePendingTasksStatus(s, status)
  /\ UNCHANGED <<lock, clickup, notified, hs, ps, clicks, events, fnVars, auxVars>>

\* Ingestion: notifications for the same file may be delivered again and
\* concurrently, while the stored sets are being approved.
Next ==
  \/ \E d \in Deliveries : DeliveryStep(d)
  \/ ApprovalStatus

SpecIngest == Init /\ [][Next]_vars

\* The store right after processTranscript stored one set of MaxTasks
\* candidates and sent its cards.
InitStored ==
  /\ store = [s \in SetIds |-> IF s = 1
                  THEN [exists |-> TRUE, fileId |-> 1, status |-> "pending",
                        confidential |-> FALSE,
                        analysis |-> StoredAnalysis(NewTasks(MaxTasks)),
                        tasks |-> NewTasks(MaxTasks)]
                  ELSE NoDoc]
  /\ lock = [s \in SetIds |-> 0]
  /\ clickup = <<>>
  /\ notified = {1}
  /\ hs = [h \in Handlers |-> IdleH]
  /\ ps = [d \in Deliveries |-> IdleD]
  /\ clicks = 0
  /\ events = 1
  /\ FnIdle

\* Approval: card clicks on a stored set, handled by concurrent instances;
\* the forms of the cards are left as they were sent (updateTaskDetails still
\* runs and merges the unedited snapshot).
NextHandlers == \E h \in Handlers : HandlerStep(h, {""})

Spec == InitStored /\ [][NextHandlers]_vars

\* Approval with edited forms.
NextEdits == \E h \in Handlers : HandlerStep(h, FormInputs)

SpecEdits == InitStored /\ [][NextEdits]_vars

\* The store after the first candidate of the set was created in the task
\* tracker by a handleCreateTask call that has ended; clicks counts the clicks
\* from here on.
InitCreated ==
  /\ store = [s \in SetIds |-> IF s = 1
                  THEN [exists |-> TRUE, fileId |-> 1, status |-> "pending",
                        confidential |-> FALSE,
                        analysis |-> StoredAnalysis(NewTasks(MaxTasks)),
                        tasks |-> SetCreated(NewTasks(MaxTasks), 1, 1)]
                  ELSE NoDoc]
  /\ lock = [s \in SetIds |-> 0]
  /\ clickup = <<[sid |-> 1, idx |-> 1,
                  description |-> BuildDescription(NewTasks(MaxTasks)[1])]>>
  /\ notified = {1}
  /\ hs = [h \in Handlers |-> IdleH]
  /\ ps = [d \in Deliveries |-> IdleD]
  /\ clicks = 0
  /\ events = 1
  /\ FnIdle

\* Approval goes on with clicks on a set of which a candidate is created.
SpecRecreate == InitCreated /\ [][NextHandlers]_vars

\* Ingestion followed by approval: one instance of each function; the folder
\* of a delivered file may be confidential, the forms may be edited.
NextConfidential == DeliveryStep(1) \/ HandlerStep(1, FormInputs)

\* The state before the last delivery of the bound: the earlier ones failed
\* before storing and left nothing behind.
InitConfidential ==
  /\ store = [s \in SetIds |-> NoDoc]
  /\ lock = [s \in SetIds |-> 0]
  /\ clickup = <<>>
  /\ notified = {}
  /\ hs = [h \in Handlers |-> IdleH]
  /\ ps = [d \in Deliveries |-> IdleD]
  /\ clicks = 0
  /\ events = MaxEvents - 1
  /\ FnIdle

SpecConfidential == InitConfidential /\ [][NextConfidential]_vars

\* ------------------------------------------------------------ openaiService
\* Strings are sequences of characters: a word character, a blank and the
\* newline.  MAX_CHARS_PER_CHUNK (400000 in the code) is scaled down.
MaxCharsPerChunk == 3
MaxContent == 6      \* longest transcript content

Chars == {"a", " ", "\n"}

Strings(n) == UNION {[1..k -> Chars] : k \in 0..n}

IsSpace(c) == c \in {" ", "\n"}

RECURSIVE TrimStart(_)
TrimStart(str) ==
  IF str # <<>> /\ IsSpace(Head(str)) THEN TrimStart(Tail(str)) ELSE str

RECURSIVE TrimEnd(_)
TrimEnd(str) ==
  IF str # <<>> /\ IsSpace(str[Len(str)])
    THEN TrimEnd(SubSeq(str, 1, Len(str) - 1)) ELSE str

\* String.prototype.trim
Trim(str) == TrimEnd(TrimStart(str))

\* transcript.split('\n'): the lines, at least one
RECURSIVE SplitLines(_, _)
SplitLines(str, line) ==
  IF str = <<>> THEN <<line>>
  ELSE IF Head(str) = "\n" THEN <<line>> \o SplitLines(Tail(str), <<>>)
  ELSE SplitLines(Tail(str), Append(line, Head(str)))

\* lines.join('\n')
RECURSIVE JoinLines(_)
JoinLines(lines) ==
  IF lines = <<>> THEN <<>>
  ELSE IF Len(lines) = 1 THEN lines[1]
  ELSE lines[1] \o <<"\n">> \o JoinLines(Tail(lines))

\* The loop of splitTranscriptIntoChunks over the lines from index i on.  Both
\* branches taken when the line does not fit (speaker change or not) push the
\* current chunk when it is not empty and start a new one with the line, so
\* the speaker pattern decides nothing.
RECURSIVE ChunkLoop(_, _, _, _)
ChunkLoop(lines, i, currentChunk, acc) ==
  IF i > Len(lines)
    THEN IF Len(Trim(currentChunk)) > 0 THEN Append(acc, Trim(currentChunk)) ELSE acc
  ELSE LET lineWithNewline == lines[i] \o <<"\n">> IN
       IF Len(currentChunk) + Len(lineWithNewline) > MaxCharsPerChunk
         THEN ChunkLoop(lines, i + 1, lineWithNewline,
                        IF Len(currentChunk) > 0
                          THEN Append(acc, Trim(currentChunk)) ELSE acc)
         ELSE ChunkLoop(lines, i + 1, currentChunk \o lineWithNewline, acc)

splitTranscriptIntoChunks(str) == ChunkLoop(SplitLines(str, <<>>), 1, <<>>, <<>>)

\* The chunk planner on its own: any transcript content, then the call.
InitChunks ==
  /\ store = [s \in SetIds |-> NoDoc]
  /\ lock = [s \in SetIds |-> 0]
  /\ clickup = <<>>
  /\ notified = {}
  /\ hs = [h \in Handlers |-> IdleH]
  /\ ps = [d \in Deliveries |-> IdleD]
  /\ clicks = 0
  /\ events = 0
  /\ ex = IdleE
  /\ transcript \in Strings(MaxContent)
  /\ chunks = <<>>
  /\ analyses = <<>> /\ merged = <<>>
  /\ expression = <<>> /\ meetingDate = <<>> /\ resolved = <<>>
  /\ called = ""
  /\ AuxIdle

PlanChunks ==
  /\ called = ""
  /\ called' = "splitTranscriptIntoChunks"
  /\ chunks' = splitTranscriptIntoChunks(transcript)
  /\ UNCHANGED <<auxVars, store, lock, clickup, notified, hs, ps, clicks, events, ex,
                 transcript, analyses, merged, expression, meetingDate, resolved>>

SpecChunks == InitChunks /\ [][PlanChunks]_vars

\* ------------------------------------------------------- mergeChunkResults
\* A title is the sequence of its words; "A" is an upper-case spelling of "a".
\* Confidences are in tenths.
MaxMerged == 3       \* candidates in the input of one merge

TaskTitles == {<<"a">>, <<"b">>, <<"a", "b">>, <<"A">>}
Confidences == {6, 10}
ExtractionTypes == {"explicit", "implicit"}
ExtractedTasks == [title : TaskTitles, confidence : Confidences,
                   extraction_type : ExtractionTypes]

\* task.title.toLowerCase().trim(): blanks around a title are not represented
NormalizeTitle(title) == [i \in DOMAIN title |-> IF title[i] = "A" THEN "a" ELSE title[i]]

\* title1.includes(title2)
Includes(title1, title2) ==
  \E k \in 0..(Len(title1) - Len(title2)) :
    \A i \in 1..Len(title2) : title1[k + i] = title2[i]

\* new Set(title.split(/\s+/)): the empty title splits into one empty word
WordSet(title) == IF title = <<>> THEN {""} ELSE {title[i] : i \in DOMAIN title}

areTitlesSimilar(title1, title2) ==
  IF title1 = title2 THEN TRUE
  ELSE IF Includes(title1, title2) \/ Includes(title2, title1) THEN TRUE
  ELSE LET words1 == WordSet(title1)
           words2 == WordSet(title2)
           overlap == Cardinality(words1 \cap words2)
           minLength == IF Cardinality(words1) < Cardinality(words2)
                          THEN Cardinality(words1) ELSE Cardinality(words2)
       IN minLength > 0 /\ 10 * overlap > 7 * minLength

\* The first entry of the map, in insertion order, whose key is similar; 0 if none.
FindSimilar(seen, key) ==
  LET hits == {j \in DOMAIN seen : areTitlesSimilar(key, seen[j].key)}
  IN IF hits = {} THEN 0 ELSE CHOOSE j \in hits : \A k \in hits : j <= k

\* Map.prototype.delete
MapDelete(seen, j) == SubSeq(seen, 1, j - 1) \o SubSeq(seen, j + 1, Len(seen))

\* Map.prototype.set: a present key keeps its place, a new key goes last
MapSet(seen, key, task) ==
  LET at == {j \in DOMAIN seen : seen[j].key = key}
  IN IF at = {} THEN Append(seen, [key |-> key, task |-> task])
     ELSE [j \in DOMAIN seen |-> IF j \in at THEN [key |-> key, task |-> task]
                                 ELSE seen[j]]

\* Variant: the later candidate always replaces the earlier one.
ReplacesAlways(task, existingTask) == TRUE

\* task.confidence > existingTask.confidence ||
\* (task.extraction_type === 'explicit' && existingTask.extraction_type === 'implicit')
Replaces(task, existingTask) ==
  \/ task.confidence > existingTask.confidence
  \/ task.extraction_type = "explicit" /\ existingTask.extraction_type = "implicit"

RECURSIVE DedupLoop(_, _, _)
DedupLoop(tasks, i, seen) ==
  IF i > Len(tasks) THEN seen
  ELSE LET task == tasks[i]
           normalizedTitle == NormalizeTitle(task.title)
           j == FindSimilar(seen, normalizedTitle)
       IN DedupLoop(tasks, i + 1,
            IF j = 0 THEN MapSet(seen, normalizedTitle, task)
            ELSE IF Replaces(task, seen[j].task)
              THEN MapSet(MapDelete(seen, j), normalizedTitle, task)
            ELSE seen)

\* Array.from(seen.values())
deduplicateTasks(tasks) ==
  LET seen == DedupLoop(tasks, 1, <<>>) IN [j \in DOMAIN seen |-> seen[j].task]

\* [...new Set(allDecisions)]: the first occurrence of each, in order
RECURSIVE Unique(_)
Unique(list) ==
  IF list = <<>> THEN <<>>
  ELSE LET init == Unique(SubSeq(list, 1, Len(list) - 1))
           last == list[Len(list)]
       IN IF \E i \in DOMAIN init : init[i] = last THEN init ELSE Append(init, last)

RECURSIVE Flatten(_)
Flatten(lists) ==
  IF lists = <<>> THEN <<>> ELSE Head(lists) \o Flatten(Tail(lists))

\* A summary is the sequence of its sentences.
mergeChunkResults(results) ==
  LET allTasks == Flatten([i \in DOMAIN results |-> results[i].tasks])
      allDecisions == Flatten([i \in DOMAIN results |-> results[i].decisions])
      summaries == [i \in DOMAIN results |-> results[i].meeting_summary]
  IN [tasks |-> deduplicateTasks(allTasks),
      meeting_summary |->
        IF Len(summaries) = 1 THEN summaries[1]
        ELSE <<"Meeting covered multiple topics.">> \o Flatten(summaries),
      decisions |-> Unique(allDecisions)]

\* The analyses handed to one merge: one analysis, or the candidates spread
\* over two chunks.
DecisionLists == {<<>>, <<"d">>, <<"d", "e">>, <<"d", "d">>}
TaskLists == UNION {[1..n -> ExtractedTasks] : n \in 0..MaxMerged}
Analysis(tasks, decisions) ==
  [tasks |-> tasks, meeting_summary |-> <<"s">>, decisions |-> decisions]

InitMerge ==
  /\ store = [s \in SetIds |-> NoDoc]
  /\ lock = [s \in SetIds |-> 0]
  /\ clickup = <<>>
  /\ notified = {}
  /\ hs = [h \in Handlers |-> IdleH]
  /\ ps = [d \in Deliveries |-> IdleD]
  /\ clicks = 0
  /\ events = 0
  /\ ex = IdleE
  /\ transcript = <<>>
  /\ chunks = <<>>
  /\ \E tasks \in TaskLists :
       \/ \E decisions \in DecisionLists : analyses = <<Analysis(tasks, decisions)>>
       \/ \E k \in 1..(Len(tasks) - 1) :
            analyses = <<Analysis(SubSeq(tasks, 1, k), <<"d">>),
                         Analysis(SubSeq(tasks, k + 1, Len(tasks)), <<"d">>)>>
  /\ merged = <<>>
  /\ expression = <<>>
  /\ meetingDate = <<>>
  /\ resolved = <<>>
  /\ called = ""
  /\ AuxIdle

\* return mergeChunkResults(chunkResults)
ApplyMerge ==
  /\ called = ""
  /\ called' = "mergeChunkResults"
  /\ merged' = <<mergeChunkResults(analyses)>>
  /\ UNCHANGED <<auxVars, store, lock, clickup, notified, hs, ps, clicks, events, ex,
                 transcript, chunks, analyses, expression, meetingDate, resolved>>

SpecMerge == InitMerge /\ [][ApplyMerge]_vars

\* ------------------------------------------------------------ dateResolver
\* An ISO date string 'yyyy-MM-dd' is the triple <<year, month 1..12, day>>; a
\* Date is a record with the fields of a JavaScript Date (month 0..11).  An
\* expression is the sequence of its words.
MaxYears == 3        \* reference years after the first one

Years == 2024..(2024 + MaxYears)
IsoDates == {<<y, m, d>> : y \in Years, m \in 1..12, d \in 1..31}
Null == <<>>

WeekdayNames == {"sunday", "monday", "tuesday", "wednesday", "thursday",
                 "friday", "saturday"}
MonthNames == {"january", "february", "march", "april", "may", "june", "july",
               "august", "september", "october", "november", "december"}
Expressions ==
  {<<"tomorrow">>, <<"eow">>, <<"end", "of", "week">>, <<"eom">>,
   <<"end", "of", "month">>, <<"eoq">>, <<"end", "of", "quarter">>,
   <<"in", "1", "day">>, <<"in", "2", "days">>, <<"in", "10", "days">>,
   <<"in", "3000000", "days">>, <<"in", "200000000", "days">>,
   <<"in", "1", "week">>, <<"in", "2", "weeks">>, <<"in", "a", "week">>,
   <<"in", "two", "weeks">>, <<"next", "week">>, <<"asap">>, <<"immediately">>,
   <<"right", "away">>, <<"urgent">>, <<"q1">>, <<"q2">>, <<"q3">>, <<"q4">>,
   <<"next", "Friday">>, <<"Q1">>, <<"someday">>}
  \union {<<p, w>> : p \in {"next", "this", "by"}, w \in WeekdayNames}
  \union {<<m>> : m \in MonthNames}
  \union {<<"by", m>> : m \in MonthNames}

\* expression.toLowerCase()
ToLowerCase(expr) ==
  [i \in DOMAIN expr |-> IF expr[i] = "Friday" THEN "friday"
                         ELSE IF expr[i] = "Q1" THEN "q1" ELSE expr[i]]

\* parseInt(match[1], 10)
Numerals == {"1", "2", "10", "3000000", "200000000"}
ParseInt(w) ==
  IF w = "1" THEN 1 ELSE IF w = "2" THEN 2 ELSE IF w = "10" THEN 10
  ELSE IF w = "3000000" THEN 3000000 ELSE 200000000

IsLeapYear(y) == (y % 4 = 0 /\ y % 100 # 0) \/ y % 400 = 0

\* Days of month m (0..11) of year y.
DaysInMonth(y, m) ==
  IF m = 1 THEN (IF IsLeapYear(y) THEN 29 ELSE 28)
  ELSE IF m \in {3, 5, 8, 10} THEN 30 ELSE 31

\* isValid(parseISO(str)): the day exists in the month
isValid(str) == str[3] <= DaysInMonth(str[1], str[2] - 1)

parseISO(str) == [year |-> str[1], month |-> str[2] - 1, date |-> str[3]]

\* A Date whose time value is NaN, and the RangeError that format throws for it.
InvalidDate == [year |-> 0, month |-> 0, date |-> 0]
Thrown == <<"RangeError">>

\* format(date, 'yyyy-MM-dd'); the year is printed with all its digits
format(date) ==
  IF date = InvalidDate THEN Thrown ELSE <<date.year, date.month + 1, date.date>>

\* Days from 1970-01-01 to the first day of year y / of month m of year y.
DaysBeforeYear(y) ==
  365 * (y - 1970)
  + (((y - 1) \div 4) - ((y - 1) \div 100) + ((y - 1) \div 400)) - 477

RECURSIVE DaysBeforeMonth(_, _)
DaysBeforeMonth(y, m) ==
  IF m = 0 THEN 0 ELSE DaysBeforeMonth(y, m - 1) + DaysInMonth(y, m - 1)

\* The day count of a Date and the Date of a day count.
ToDays(date) ==
  DaysBeforeYear(date.year) + DaysBeforeMonth(date.year, date.month) + date.date - 1

FromDaysIn(n, years) ==
  LET y == CHOOSE yy \in years :
             DaysBeforeYear(yy) <= n /\ n < DaysBeforeYear(yy + 1)
      r == n - DaysBeforeYear(y)
      m == CHOOSE mm \in 0..11 :
             DaysBeforeMonth(y, mm) <= r /\ r < DaysBeforeMonth(y, mm) + DaysInMonth(y, mm)
  IN [year |-> y, month |-> m, date |-> r - DaysBeforeMonth(y, m) + 1]

\* The calendar repeats every 400 years, which are 146097 days.
FromDays(n) ==
  IF n < DaysBeforeYear(2024 + MaxYears + 3)
    THEN FromDaysIn(n, 2023..(2024 + MaxYears + 2))
    ELSE LET cycles == (n - DaysBeforeYear(2023)) \div 146097
             date == FromDaysIn(n - 146097 * cycles, 2023..2423)
         IN [date EXCEPT !.year = @ + 400 * cycles]

\* Date.prototype.getDay: 0 = Sunday; 1970-01-01 was a Thursday
getDay(date) == (ToDays(date) + 4) % 7

\* The time value of a Date is at most 100,000,000 days from 1970-01-01.
addDays(date, amount) ==
  IF ToDays(date) + amount > 100000000 THEN InvalidDate
  ELSE FromDays(ToDays(date) + amount)
addWeeks(date, amount) == addDays(date, 7 * amount)

\* date-fns endOfMonth: the last day of the month of the date
endOfMonth(date) == [date EXCEPT !.date = DaysInMonth(date.year, date.month)]

\* date-fns nextFriday: the first Friday after the date
nextFriday(date) ==
  LET delta == 5 - getDay(date)
  IN addDays(date, IF delta <= 0 THEN delta + 7 ELSE delta)

\* date-fns setDay(date, day, {weekStartsOn}): the given day of the week of
\* the date, the week starting on weekStartsOn
setDay(date, day, weekStartsOn) ==
  LET delta == 7 - weekStartsOn
  IN addDays(date, ((day + delta) % 7) - ((getDay(date) + delta) % 7))

getDayIndex(dayName) ==
  IF dayName = "monday" THEN 1 ELSE IF dayName = "tuesday" THEN 2
  ELSE IF dayName = "wednesday" THEN 3 ELSE IF dayName = "thursday" THEN 4
  ELSE IF dayName = "friday" THEN 5 ELSE IF dayName = "saturday" THEN 6 ELSE 0

getNextDayOfWeek(fromDate, dayName) ==
  LET targetDay == getDayIndex(dayName)
      currentDay == getDay(fromDate)
      daysToAdd == targetDay - currentDay
  IN addDays(fromDate, IF daysToAdd <= 0 THEN daysToAdd + 7 ELSE daysToAdd)

getThisDayOfWeek(fromDate, dayName) ==
  setDay(fromDate, getDayIndex(dayName), 1)

getEndOfQuarter(date) ==
  LET quarterMonth == (date.month \div 3) * 3 + 2
  IN endOfMonth([year |-> date.year, month |-> quarterMonth, date |-> 1])

\* Variant: the year is never advanced.
getQuarterEndDateSameYear(referenceDate, quarter) ==
  endOfMonth([year |-> referenceDate.year, month |-> 3 * quarter - 1, date |-> 1])

getQuarterEndDate(referenceDate, quarter) ==
  LET endMonth == 3 * quarter - 1
      targetYear == IF endMonth < referenceDate.month
                      THEN referenceDate.year + 1 ELSE referenceDate.year
  IN endOfMonth([year |-> targetYear, month |-> endMonth, date |-> 1])

MonthIndex(monthName) ==
  IF monthName = "january" THEN 0 ELSE IF monthName = "february" THEN 1
  ELSE IF monthName = "march" THEN 2 ELSE IF monthName = "april" THEN 3
  ELSE IF monthName = "may" THEN 4 ELSE IF monthName = "june" THEN 5
  ELSE IF monthName = "july" THEN 6 ELSE IF monthName = "august" THEN 7
  ELSE IF monthName = "september" THEN 8 ELSE IF monthName = "october" THEN 9
  ELSE IF monthName = "november" THEN 10 ELSE 11

\* Variant: the year is never advanced.
getEndOfMonthSameYear(referenceDate, monthName) ==
  endOfMonth([year |-> referenceDate.year, month |-> MonthIndex(monthName), date |-> 1])

getEndOfMonth(referenceDate, monthName) ==
  LET targetMonth == MonthIndex(monthName)
      targetYear == IF targetMonth < referenceDate.month
                      THEN referenceDate.year + 1 ELSE referenceDate.year
  IN endOfMonth([year |-> targetYear, month |-> targetMonth, date |-> 1])

\* The resolvers, tried in the order of the list.
resolveDateExpression(expr, meetingDateStr) ==
  IF ~isValid(meetingDateStr) THEN Null
  ELSE
    LET refDate == parseISO(meetingDateStr)
        e == ToLowerCase(expr)
        n == Len(e)
    IN IF e = <<"tomorrow">> THEN format(addDays(refDate, 1))
       ELSE IF n = 2 /\ e[1] = "next" /\ e[2] \in WeekdayNames
         THEN format(getNextDayOfWeek(refDate, e[2]))
       ELSE IF n = 2 /\ e[1] = "this" /\ e[2] \in WeekdayNames
         THEN format(getThisDayOfWeek(refDate, e[2]))
       ELSE IF e \in {<<"end", "of", "week">>, <<"eow">>}
         THEN format(nextFriday(refDate))
       ELSE IF e \in {<<"end", "of", "month">>, <<"eom">>}
         THEN format(endOfMonth(refDate))
       ELSE IF e \in {<<"end", "of", "quarter">>, <<"eoq">>}
         THEN format(getEndOfQuarter(refDate))
       ELSE IF n = 3 /\ e[1] = "in" /\ e[2] \in Numerals /\ e[3] \in {"day", "days"}
         THEN format(addDays(refDate, ParseInt(e[2])))
       ELSE IF n = 3 /\ e[1] = "in" /\ e[2] \in Numerals /\ e[3] \in {"week", "weeks"}
         THEN format(addWeeks(refDate, ParseInt(e[2])))
       ELSE IF e = <<"in", "a", "week">> THEN format(addWeeks(refDate, 1))
       ELSE IF e = <<"in", "two", "weeks">> THEN format(addWeeks(refDate, 2))
       ELSE IF e = <<"next", "week">> THEN format(addWeeks(refDate, 1))
       ELSE IF e \in {<<"q1">>, <<"q2">>, <<"q3">>, <<"q4">>}
         THEN format(getQuarterEndDate(refDate,
                IF e = <<"q1">> THEN 1 ELSE IF e = <<"q2">> THEN 2
                ELSE IF e = <<"q3">> THEN 3 ELSE 4))
       ELSE IF e \in {<<"asap">>, <<"immediately">>, <<"right", "away">>, <<"urgent">>}
         THEN format(addDays(refDate, 1))
       ELSE IF n = 2 /\ e[1] = "by" /\ e[2] \in WeekdayNames
         THEN format(getNextDayOfWeek(refDate, e[2]))
       ELSE IF n = 1 /\ e[1] \in MonthNames
         THEN format(getEndOfMonth(refDate, e[1]))
       ELSE IF n = 2 /\ e[1] \in {"by", "in"} /\ e[2] \in MonthNames
         THEN format(getEndOfMonth(refDate, e[2]))
       ELSE Null

InitDates ==
  /\ store = [s \in SetIds |-> NoDoc]
  /\ lock = [s \in SetIds |-> 0]
  /\ clickup = <<>>
  /\ notified = {}
  /\ hs = [h \in Handlers |-> IdleH]
  /\ ps = [d \in Deliveries |-> IdleD]
  /\ clicks = 0
  /\ events = 0
  /\ ex = IdleE
  /\ transcript = <<>>
  /\ chunks = <<>>
  /\ analyses = <<>>
  /\ merged = <<>>
  /\ expression \in Expressions
  /\ meetingDate \in IsoDates
  /\ resolved = <<>>
  /\ called = ""
  /\ AuxIdle

\* postProcessAnalysis: resolveDateExpression(task.suggested_due, meetingDate)
ResolveDate ==
  /\ called = ""
  /\ called' = "resolveDateExpression"
  /\ resolved' = <<resolveDateExpression(expression, meetingDate)>>
  /\ UNCHANGED <<auxVars, store, lock, clickup, notified, hs, ps, clicks, events, ex,
                 transcript, chunks, analyses, merged, expression, meetingDate>>

SpecDates == InitDates /\ [][ResolveDate]_vars

\* ------------------------------------------------------ postProcessAnalysis
\* A suggested_due value: null, an ISO-shaped string (a triple, not
\* necessarily a date of the calendar) or any other string (its words; no
\* word is the empty string).  `form` is the shape that the regular
\* expression of isISODate and the truthiness test read from the string.
NoDue == [form |-> "null", value |-> <<>>]
DueValues ==
  {NoDue, [form |-> "words", value |-> <<>>],
   [form |-> "date", value |-> <<2026, 2, 3>>],
   [form |-> "date", value |-> <<2026, 13, 45>>]}
  \union {[form |-> "words", value |-> e] : e \in Expressions}

\* /^\d{4}-\d{2}-\d{2}$/.test(dateStr)
isISODate(dateStr) == dateStr.form = "date"

\* task.suggested_due && ...: null and the empty string are falsy
Truthy(due) == due.form # "null" /\ ~(due.form = "words" /\ due.value = <<>>)

\* The string or null that resolveDateExpression returns, as a due value.
DueOf(result) ==
  IF result = Null THEN NoDue ELSE [form |-> "date", value |-> result]

\* The candidates of an analysis before post-processing.
DueTasks ==
  {[title |-> <<"a">>, confidence |-> 6, extraction_type |-> "implicit",
    suggested_due |-> due] : due \in DueValues}

processTask(task, meetingDateStr) ==
  IF Truthy(task.suggested_due) /\ ~isISODate(task.suggested_due)
    THEN [task EXCEPT !.suggested_due =
            DueOf(resolveDateExpression(task.suggested_due.value, meetingDateStr))]
    ELSE task

\* format throws for some task: the exception leaves postProcessAnalysis.
PostProcessThrows(analysis, meetingDateStr) ==
  \E k \in DOMAIN analysis.tasks :
    LET due == analysis.tasks[k].suggested_due
    IN /\ Truthy(due) /\ ~isISODate(due)
       /\ resolveDateExpression(due.value, meetingDateStr) = Thrown

postProcessAnalysis(analysis, meetingDateStr) ==
  [analysis EXCEPT !.tasks =
     [k \in DOMAIN analysis.tasks |-> processTask(analysis.tasks[k], meetingDateStr)]]

InitPostProcess ==
  /\ store = [s \in SetIds |-> NoDoc]
  /\ lock = [s \in SetIds |-> 0]
  /\ clickup = <<>>
  /\ notified = {}
  /\ hs = [h \in Handlers |-> IdleH]
  /\ ps = [d \in Deliveries |-> IdleD]
  /\ clicks = 0
  /\ events = 0
  /\ ex = IdleE
  /\ transcript = <<>>
  /\ chunks = <<>>
  /\ \E task \in DueTasks : analyses = <<Analysis(<<task>>, <<"d">>)>>
  /\ merged = <<>>
  /\ expression = <<>>
  /\ meetingDate \in IsoDates
  /\ resolved = <<>>
  /\ called = ""
  /\ AuxIdle

\* return postProcessAnalysis(result, meetingInfo.date), on either path
PostProcess ==
  /\ called = ""
  /\ IF PostProcessThrows(analyses[1], meetingDate)
       THEN called' = "postProcessAnalysis throws" /\ merged' = <<>>
       ELSE /\ called' = "postProcessAnalysis"
            /\ merged' = <<postProcessAnalysis(analyses[1], meetingDate)>>
  /\ UNCHANGED <<auxVars, store, lock, clickup, notified, hs, ps, clicks, events, ex,
                 transcript, chunks, analyses, expression, meetingDate, resolved>>

SpecPostProcess == InitPostProcess /\ [][PostProcess]_vars

\* ------------------------------------------------------------ extractTasks
MaxDepth == 2        \* frames of extractTasksFromChunks that are recorded

\* What the extraction service may answer: no task, an explicit task, an
\* implicit task below the threshold, an implicit task above the threshold
\* with another title.
ServiceAnalyses ==
  {[tasks |-> <<>>, meeting_summary |-> <<"s">>, decisions |-> <<>>],
   [tasks |-> <<[title |-> <<"a">>, confidence |-> 10, extraction_type |-> "explicit"]>>,
    meeting_summary |-> <<"s">>, decisions |-> <<"d">>],
   [tasks |-> <<[title |-> <<"a">>, confidence |-> 6, extraction_type |-> "implicit"]>>,
    meeting_summary |-> <<"s">>, decisions |-> <<"d">>],
   [tasks |-> <<[title |-> <<"b">>, confidence |-> 8, extraction_type |-> "implicit"]>>,
    meeting_summary |-> <<"s">>, decisions |-> <<"d">>]}

\* processTranscript: const analysis = await extractTasks(content, meetingInfo)
extractTasksBegin(d) ==
  /\ ps[d].pc = "extract" /\ ex.pc = "idle"
  /\ \E content \in Strings(MaxContent) :
       /\ transcript' = content
       /\ ex' = [IdleE EXCEPT !.pc = "enter", !.content = content]
  /\ UNCHANGED <<auxVars, store, lock, clickup, notified, hs, ps, clicks, events, chunks,
                 analyses, merged, expression, meetingDate, resolved, called>>

\* Variant: content of exactly the limit is chunked too.
extractTasksChunkAtLimit ==
  /\ ex.pc = "enter"
  /\ ex' = [ex EXCEPT !.calls = <<>>,
                      !.pc = IF Len(ex.content) >= MaxCharsPerChunk
                               THEN "chunks" ELSE "primary"]
  /\ UNCHANGED <<auxVars, store, lock, clickup, notified, hs, ps, clicks, events, transcript,
                 chunks, analyses, merged, expression, meetingDate, resolved, called>>

\* extractTasks: if (transcriptContent.length > MAX_CHARS_PER_CHUNK)
extractTasks ==
  /\ ex.pc = "enter"
  /\ ex' = [ex EXCEPT !.calls = <<>>,
                      !.pc = IF Len(ex.content) > MaxCharsPerChunk
                               THEN "chunks" ELSE "primary"]
  /\ UNCHANGED <<auxVars, store, lock, clickup, notified, hs, ps, clicks, events, transcript,
                 chunks, analyses, merged, expression, meetingDate, resolved, called>>

\* A new frame of extractTasksFromChunks: its chunks, the loop index i, the
\* chunkResults, the loop indexes whose result was pushed and the number of
\* sleep(1000) awaited.  A chunk that is chunked again is one
\* line longer than the limit, whose only chunk is itself: every frame above
\* the first is the same frame, and frames above MaxDepth are not recorded.
PushFrame(stack, frame) ==
  IF Len(stack) < MaxDepth THEN Append(stack, frame) ELSE stack

\* extractTasksFromChunks: split, then extractTasks(chunks[0], ...)
extractTasksFromChunks ==
  /\ ex.pc = "chunks"
  /\ LET cs == splitTranscriptIntoChunks(ex.content)
         frame == [chunks |-> cs, i |-> 1, results |-> <<>>, order |-> <<>>,
                   sleeps |-> 0]
     IN ex' = [ex EXCEPT !.stack = PushFrame(@, frame),
                         !.content = IF cs = <<>> THEN <<>> ELSE cs[1],
                         !.pc = IF cs = <<>> THEN "merge" ELSE "enter"]
  /\ UNCHANGED <<auxVars, store, lock, clickup, notified, hs, ps, clicks, events, transcript,
                 chunks, analyses, merged, expression, meetingDate, resolved, called>>

\* extractTasks: the call of the primary model.  It fails when the service
\* fails, when the answer does not parse or when post-processing throws; the
\* catch block then calls extractTasksWithFallback.
PrimaryCall ==
  /\ ex.pc = "primary"
  /\ \/ \E a \in ServiceAnalyses :
          ex' = [ex EXCEPT !.calls = Append(@, [model |-> "primary",
                                                prompt |-> ex.content, ok |-> TRUE]),
                           !.result = <<a>>, !.pc = "return"]
     \/ ex' = [ex EXCEPT !.calls = Append(@, [model |-> "primary",
                                              prompt |-> ex.content, ok |-> FALSE]),
                         !.pc = "fallback"]
  /\ UNCHANGED <<auxVars, store, lock, clickup, notified, hs, ps, clicks, events, transcript,
                 chunks, analyses, merged, expression, meetingDate, resolved, called>>

\* Variant: a failed fallback call is made again.
extractTasksWithFallbackRetry ==
  /\ ex.pc = "fallback"
  /\ \/ \E a \in ServiceAnalyses :
          ex' = [ex EXCEPT !.calls = Append(@, [model |-> "fallback",
                                                prompt |-> ex.content, ok |-> TRUE]),
                           !.result = <<a>>, !.pc = "return"]
     \/ ex' = [ex EXCEPT !.calls = Append(@, [model |-> "fallback",
                                              prompt |-> ex.content, ok |-> FALSE])]
  /\ UNCHANGED <<auxVars, store, lock, clickup, notified, hs, ps, clicks, events, transcript,
                 chunks, analyses, merged, expression, meetingDate, resolved, called>>

\* extractTasksWithFallback: one call of the fallback model with the same
\* prompt; its failure is thrown through every caller (none catches it).  The
\* stack stays as it was at the throw: its frames hold the results that are lost.
extractTasksWithFallback ==
  /\ ex.pc = "fallback"
  /\ \/ \E a \in ServiceAnalyses :
          ex' = [ex EXCEPT !.calls = Append(@, [model |-> "fallback",
                                                prompt |-> ex.content, ok |-> TRUE]),
                           !.result = <<a>>, !.pc = "return"]
     \/ ex' = [ex EXCEPT !.calls = Append(@, [model |-> "fallback",
                                              prompt |-> ex.content, ok |-> FALSE]),
                         !.result = <<>>, !.pc = "failed"]
  /\ UNCHANGED <<auxVars, store, lock, clickup, notified, hs, ps, clicks, events, transcript,
                 chunks, analyses, merged, expression, meetingDate, resolved, called>>

\* Variant: the next chunk is sent without a delay.
ReturnAnalysisNoSleep ==
  /\ ex.pc = "return"
  /\ IF ex.stack = <<>> THEN ex' = [ex EXCEPT !.pc = "done"]
     ELSE LET top == Len(ex.stack)
              f == ex.stack[top]
              g == [f EXCEPT !.results = Append(@, ex.result[1]),
                             !.order = Append(@, f.i)]
          IN IF f.i < Len(f.chunks)
               THEN ex' = [ex EXCEPT !.stack[top] = [g EXCEPT !.i = f.i + 1],
                                     !.content = f.chunks[f.i + 1],
                                     !.calls = <<>>,
                                     !.result = <<>>, !.pc = "enter"]
               ELSE ex' = [ex EXCEPT !.stack[top] = g, !.calls = <<>>,
                                     !.result = <<>>, !.pc = "merge"]
  /\ UNCHANGED <<auxVars, store, lock, clickup, notified, hs, ps, clicks, events, transcript,
                 chunks, analyses, merged, expression, meetingDate, resolved, called>>

\* extractTasks returns: to processTranscript, or to the loop of
\* extractTasksFromChunks (chunkResults.push(result), sleep, next chunk).
ReturnAnalysis ==
  /\ ex.pc = "return"
  /\ IF ex.stack = <<>> THEN ex' = [ex EXCEPT !.pc = "done"]
     ELSE LET top == Len(ex.stack)
              f == ex.stack[top]
              g == [f EXCEPT !.results = Append(@, ex.result[1]),
                             !.order = Append(@, f.i)]
          IN IF f.i < Len(f.chunks)
               THEN ex' = [ex EXCEPT !.stack[top] = [g EXCEPT !.i = f.i + 1,
                                                              !.sleeps = @ + 1],
                                     !.content = f.chunks[f.i + 1],
                                     !.calls = <<>>,
                                     !.result = <<>>, !.pc = "enter"]
               ELSE ex' = [ex EXCEPT !.stack[top] = g, !.calls = <<>>,
                                     !.result = <<>>, !.pc = "merge"]
  /\ UNCHANGED <<auxVars, store, lock, clickup, notified, hs, ps, clicks, events, transcript,
                 chunks, analyses, merged, expression, meetingDate, resolved, called>>

\* extractTasksFromChunks: return mergeChunkResults(chunkResults)
MergeChunks ==
  /\ ex.pc = "merge"
  /\ LET top == Len(ex.stack) IN
     ex' = [ex EXCEPT !.result = <<mergeChunkResults(ex.stack[top].results)>>,
                      !.stack = SubSeq(@, 1, top - 1),
                      !.pc = "return"]
  /\ UNCHANGED <<auxVars, store, lock, clickup, notified, hs, ps, clicks, events, transcript,
                 chunks, analyses, merged, expression, meetingDate, resolved, called>>

\* Variant: after a failure the analyses of the chunks that succeeded are used.
extractTasksEndKeepPartial(d) ==
  /\ ps[d].pc = "extract" /\ ex.pc \in {"done", "failed"}
  /\ LET partial == IF ex.stack = <<>> THEN <<>>
                    ELSE mergeChunkResults(ex.stack[1].results).tasks
         n == IF ex.pc = "failed" THEN Len(ConfidenceFilter(partial))
              ELSE Len(ConfidenceFilter(ex.result[1].tasks))
     IN ps' = [ps EXCEPT ![d] =
                 IF n = 0 THEN [@ EXCEPT !.pc = "done",
                                         !.out = IF ex.pc = "failed" THEN "failed" ELSE "empty"]
                 ELSE [@ EXCEPT !.pc = "store", !.n = n,
                                !.analysis = IF ex.pc = "failed" THEN partial
                                             ELSE ex.result[1].tasks,
                                !.filtered = ConfidenceFilter(
                                   IF ex.pc = "failed" THEN partial
                                   ELSE ex.result[1].tasks),
                                !.out = IF ex.pc = "failed" THEN "failed" ELSE ""]]
  /\ ex' = IdleE
  /\ transcript' = <<>>
  /\ UNCHANGED <<auxVars, store, lock, clickup, notified, hs, clicks, events,
                 chunks, analyses, merged, expression, meetingDate, resolved, called>>

\* Variant: a set is stored also when no task passes the filter.
extractTasksEndStoreEmpty(d) ==
  /\ ps[d].pc = "extract" /\ ex.pc \in {"done", "failed"}
  /\ LET n == IF ex.pc = "failed" THEN 0
              ELSE Len(ConfidenceFilter(ex.result[1].tasks))
     IN ps' = [ps EXCEPT ![d] =
                 IF ex.pc = "failed" THEN [@ EXCEPT !.pc = "done", !.out = "failed"]
                 ELSE IF n < 0 THEN [@ EXCEPT !.pc = "done", !.out = "empty"]
                 ELSE [@ EXCEPT !.pc = "store", !.n = n,
                                !.analysis = ex.result[1].tasks,
                                !.filtered = ConfidenceFilter(ex.result[1].tasks)]]
  /\ ex' = IdleE
  /\ transcript' = <<>>
  /\ UNCHANGED <<auxVars, store, lock, clickup, notified, hs, clicks, events,
                 chunks, analyses, merged, expression, meetingDate, resolved, called>>

\* processTranscript after extractTasks: a failure ends the function; no task,
\* or no task above the confidence threshold, makes it return; else it stores.
extractTasksEnd(d) ==
  /\ ps[d].pc = "extract" /\ ex.pc \in {"done", "failed"}
  /\ LET n == IF ex.pc = "failed" THEN 0
              ELSE Len(ConfidenceFilter(ex.result[1].tasks))
     IN ps' = [ps EXCEPT ![d] =
                 IF ex.pc = "failed" THEN [@ EXCEPT !.pc = "done", !.out = "failed"]
                 ELSE IF n = 0 THEN [@ EXCEPT !.pc = "done", !.out = "empty"]
                 ELSE [@ EXCEPT !.pc = "store", !.n = n,
                                !.analysis = ex.result[1].tasks,
                                !.filtered = ConfidenceFilter(ex.result[1].tasks)]]
  /\ ex' = IdleE
  /\ transcript' = <<>>
  /\ UNCHANGED <<auxVars, store, lock, clickup, notified, hs, clicks, events,
                 chunks, analyses, merged, expression, meetingDate, resolved, called>>

\* One processTranscript instance with the extraction in detail.
NextExtract ==
  \/ PTStart(1) \/ PTCheck(1) \/ PTFetch(1)
  \/ extractTasksBegin(1) \/ extractTasks \/ extractTasksFromChunks
  \/ PrimaryCall \/ extractTasksWithFallback \/ ReturnAnalysis \/ MergeChunks
  \/ extractTasksEnd(1)
  \/ storePendingTasks(1) \/ PTNotify(1) \/ PTReturn(1)

\* The state before the last delivery of the bound: the earlier ones failed
\* before storing and left nothing behind.
InitExtract ==
  /\ store = [s \in SetIds |-> NoDoc]
  /\ lock = [s \in SetIds |-> 0]
  /\ clickup = <<>>
  /\ notified = {}
  /\ hs = [h \in Handlers |-> IdleH]
  /\ ps = [d \in Deliveries |-> IdleD]
  /\ clicks = 0
  /\ events = MaxEvents - 1
  /\ FnIdle

SpecExtract == InitExtract /\ [][NextExtract]_vars

\* Each step of a function is eventually taken: the service calls return or fail.
SpecExtractFair == SpecExtract /\ WF_vars(NextExtract)

\* ---------------------------------------------------------- folder watchers
\* setupAllFolderWatchers and renewExpiringWatchers call setupFolderWatcher
\* for one folder after the other, so one call is in progress at a time.
\* Every await is one step; a call to Drive or to Firestore may reject.
MaxSetups == 3       \* setupFolderWatcher calls in a run

\* setupFolderWatcher(folderId, webhookUrl) is called: a first setup or a renewal.
SetupStart ==
  /\ ws.pc = "idle"
  /\ now < MaxSetups
  /\ \E f \in Folders : ws' = [IdleW EXCEPT !.pc = "get", !.folderId = f]
  /\ UNCHANGED <<store, lock, clickup, notified, hs, ps, clicks, events, fnVars,
                 rawContent, parsed, watchers, channels, now, rt>>

\* stopExistingWatcher: doc(folderId).get(); an error is caught and ignored.
StopGet ==
  /\ ws.pc = "get"
  /\ \/ ws' = [ws EXCEPT !.pc = "watch"]
     \/ ws' = IF watchers[ws.folderId].exists
                THEN [ws EXCEPT !.pc = "stop",
                                !.stopped = watchers[ws.folderId].channelId]
                ELSE [ws EXCEPT !.pc = "watch"]
  /\ UNCHANGED <<store, lock, clickup, notified, hs, ps, clicks, events, fnVars,
                 rawContent, parsed, watchers, channels, now, rt>>

\* stopExistingWatcher: drive.channels.stop({id: data.channelId, ...}); an
\* error is caught and ignored.
StopCall ==
  /\ ws.pc = "stop"
  /\ \/ channels' = channels \ {ws.stopped}
     \/ UNCHANGED channels
  /\ ws' = [ws EXCEPT !.pc = "watch"]
  /\ UNCHANGED <<store, lock, clickup, notified, hs, ps, clicks, events, fnVars,
                 rawContent, parsed, watchers, now, rt>>

\* channelId = `meeting-bot-${folderId}-${Date.now()}`; drive.files.watch
\* creates the channel or rejects, which ends the setup.
Watch ==
  /\ ws.pc = "watch"
  /\ now' = now + 1
  /\ LET channelId == <<ws.folderId, now + 1>> IN
     \/ /\ channels' = channels \cup {channelId}
        /\ ws' = [ws EXCEPT !.pc = "store", !.channelId = channelId]
     \/ /\ UNCHANGED channels
        /\ ws' = [ws EXCEPT !.pc = "done", !.out = "failed"]
  /\ UNCHANGED <<store, lock, clickup, notified, hs, ps, clicks, events, fnVars,
                 rawContent, parsed, watchers, rt>>

\* storeWatcherChannel: doc(folderId).set(watcherData), or the write rejects.
storeWatcherChannel ==
  /\ ws.pc = "store"
  /\ \/ /\ watchers' = [watchers EXCEPT ![ws.folderId] =
                          [exists |-> TRUE, channelId |-> ws.channelId]]
        /\ ws' = [ws EXCEPT !.pc = "done", !.out = "ok"]
     \/ /\ UNCHANGED watchers
        /\ ws' = [ws EXCEPT !.pc = "done", !.out = "failed"]
  /\ UNCHANGED <<store, lock, clickup, notified, hs, ps, clicks, events, fnVars,
                 rawContent, parsed, channels, now, rt>>

\* The call returns or throws to its caller, which logs and goes on.
SetupReturn ==
  /\ ws.pc = "done"
  /\ ws' = IdleW
  /\ UNCHANGED <<store, lock, clickup, notified, hs, ps, clicks, events, fnVars,
                 rawContent, parsed, watchers, channels, now, rt>>

\* A channel reaches its expiration at Drive.
Expire ==
  /\ \E c \in channels : channels' = channels \ {c}
  /\ UNCHANGED <<store, lock, clickup, notified, hs, ps, clicks, events, fnVars,
                 rawContent, parsed, watchers, ws, now, rt>>

NextWatch ==
  \/ SetupStart \/ StopGet \/ StopCall \/ Watch \/ storeWatcherChannel
  \/ SetupReturn \/ Expire

SpecWatch == Init /\ [][NextWatch]_vars

\* ---------------------------------------------------------------- withRetry
\* withRetry(operation, maxRetries) of the task-tracker client.  Every await
\* is one step: the call of the operation, and the sleep after a rate limit.
MaxRetryArg == 3     \* the largest maxRetries a call is given (the default is 3)

\* error.response.headers['retry-after'] of a 429 response: not sent, a
\* number of seconds, or an HTTP date.
RetryAfterHeaders == {"absent", "0", "1", "date"}

\* parseInt(header || '5', 10): NaN for a date
ParseRetryAfter(header) ==
  IF header = "absent" THEN [nan |-> FALSE, n |-> 5]
  ELSE IF header = "0" THEN [nan |-> FALSE, n |-> 0]
  ELSE IF header = "1" THEN [nan |-> FALSE, n |-> 1]
  ELSE [nan |-> TRUE, n |-> 0]

\* retryAfter * 1000 * Math.pow(2, attempt), in milliseconds
WaitTime(header, attempt) ==
  LET retryAfter == ParseRetryAfter(header)
  IN IF retryAfter.nan THEN retryAfter
     ELSE [nan |-> FALSE, n |-> retryAfter.n * 1000 * 2 ^ attempt]

\* A call withRetry(operation, maxRetries) has entered its loop.
InitRetry ==
  /\ store = [s \in SetIds |-> NoDoc]
  /\ lock = [s \in SetIds |-> 0]
  /\ clickup = <<>>
  /\ notified = {}
  /\ hs = [h \in Handlers |-> IdleH]
  /\ ps = [d \in Deliveries |-> IdleD]
  /\ clicks = 0
  /\ events = 0
  /\ ex = IdleE
  /\ transcript = <<>>
  /\ chunks = <<>>
  /\ analyses = <<>>
  /\ merged = <<>>
  /\ expression = <<>>
  /\ meetingDate = <<>>
  /\ resolved = <<>>
  /\ called = ""
  /\ rawContent = <<>> /\ parsed = <<>>
  /\ watchers = [f \in Folders |-> NoWatcher]
  /\ channels = {}
  /\ ws = IdleW
  /\ now = 0
  /\ \E m \in 0..MaxRetryArg : rt = [IdleR EXCEPT !.pc = "call", !.maxRetries = m]

\* Variant: every error is followed by a wait and another attempt.
RetryCallAnyError ==
  /\ rt.pc = "call"
  /\ \/ rt' = [rt EXCEPT !.log = Append(@, "ok"), !.pc = "done",
                         !.out = <<[kind |-> "return", call |-> Len(rt.log) + 1]>>]
     \/ \E status \in {"429", "500"}, header \in RetryAfterHeaders :
          rt' = [rt EXCEPT !.log = Append(@, status),
                           !.lastError = <<[call |-> Len(rt.log) + 1, status |-> status]>>,
                           !.waits = Append(@, WaitTime(header, rt.attempt)),
                           !.pc = "sleep"]
  /\ UNCHANGED <<store, lock, clickup, notified, hs, ps, clicks, events, fnVars,
                 rawContent, parsed, watchers, channels, ws, now>>

\* return await operation(): its result is returned; a 429 AxiosError is
\* followed by sleep(waitTime); any other error is thrown at once.
RetryCall ==
  /\ rt.pc = "call"
  /\ \/ rt' = [rt EXCEPT !.log = Append(@, "ok"), !.pc = "done",
                         !.out = <<[kind |-> "return", call |-> Len(rt.log) + 1]>>]
     \/ \E header \in RetryAfterHeaders :
          rt' = [rt EXCEPT !.log = Append(@, "429"),
                           !.lastError = <<[call |-> Len(rt.log) + 1, status |-> "429"]>>,
                           !.waits = Append(@, WaitTime(header, rt.attempt)),
                           !.pc = "sleep"]
     \/ LET error == [call |-> Len(rt.log) + 1, status |-> "500"] IN
        rt' = [rt EXCEPT !.log = Append(@, "500"), !.lastError = <<error>>,
                         !.pc = "done", !.out = <<[kind |-> "throw", error |-> error]>>]
  /\ UNCHANGED <<store, lock, clickup, notified, hs, ps, clicks, events, fnVars,
                 rawContent, parsed, watchers, channels, ws, now>>

\* await sleep(waitTime) ends; attempt++; when attempt > maxRetries the loop
\* ends and lastError is thrown.
RetrySleep ==
  /\ rt.pc = "sleep"
  /\ rt' = IF rt.attempt + 1 <= rt.maxRetries
             THEN [rt EXCEPT !.attempt = @ + 1, !.pc = "call"]
             ELSE [rt EXCEPT !.attempt = @ + 1, !.pc = "done",
                             !.out = <<[kind |-> "throw", error |-> rt.lastError[1]]>>]
  /\ UNCHANGED <<store, lock, clickup, notified, hs, ps, clicks, events, fnVars,
                 rawContent, parsed, watchers, channels, ws, now>>

NextRetry == RetryCall \/ RetrySleep

SpecRetry == InitRetry /\ [][NextRetry]_vars

\* The promise of the operation settles and the timer of sleep fires.
SpecRetryFair == SpecRetry /\ WF_vars(NextRetry)

\* --------------------------------------------------------- transcriptParser
\* A line is the sequence of its blank-separated tokens, as line.trim() leaves
\* it; the file content is the sequence of its lines (content.split('\n')).
\* The tokens are a number, a clock time h:mm and a capitalised word; the
\* whole-line forms are the cue timings of WebVTT and SRT and the headers the
\* format detection looks for.  The alphabet has no <v ...> tag, no NOTE, no
\* 'From X to Everyone:' line, no AM/PM and no h:mm:ss token, so the branches
\* for these are not represented.
MaxLines == 3        \* lines of a file
MaxLineTokens == 2   \* tokens of a text line

Tokens == {"12", "10:30", "Hi"}
VttCue == <<"00:00:01.000", "-->", "00:00:02.000">>
SrtCue == <<"00:00:01,000", "-->", "00:00:02,000">>
Headers == {<<"WEBVTT">>, <<"Google Meet">>, <<"ZOOM">>, <<"Microsoft Teams">>}
TextLines == UNION {[1..k -> Tokens] : k \in 0..MaxLineTokens}
Lines == TextLines \cup Headers \cup {VttCue, SrtCue}
RawContents == UNION {[1..n -> Lines] : n \in 1..MaxLines}

\* /^\d+$/
IsDigits(line) == line = <<"12">>

\* /^\d{1,2}:\d{2}/ followed by white space
StartsWithTime(line) == line # <<>> /\ line[1] = "10:30"

\* What /^(\d{1,2}:\d{2})\s*(AM|PM)?\s*(.+)$/ leaves of a cue timing after its
\* first five characters.
CueRest(line) ==
  IF line = VttCue THEN <<":01.000", "-->", "00:00:02.000">>
  ELSE <<":01,000", "-->", "00:00:02,000">>

\* isTimestampLine: a clock time alone, or a line that begins hh:mm:ss[.,]mmm
isTimestampLine(line) == line = <<"10:30">> \/ line \in {VttCue, SrtCue}

\* afterTimestamp.includes(':')
IncludesColon(line) == \E k \in DOMAIN line : line[k] = "10:30"

\* The for loop of parseVTT from line i on.
RECURSIVE VttLoop(_, _, _, _)
VttLoop(lines, i, inCue, textLines) ==
  IF i > Len(lines) THEN textLines
  ELSE LET trimmed == lines[i] IN
       IF trimmed = <<"WEBVTT">> \/ trimmed = <<>>
         THEN VttLoop(lines, i + 1, FALSE, textLines)
       ELSE IF trimmed = VttCue THEN VttLoop(lines, i + 1, TRUE, textLines)
       ELSE IF IsDigits(trimmed) THEN VttLoop(lines, i + 1, inCue, textLines)
       ELSE IF inCue \/ ~isTimestampLine(trimmed)
         THEN VttLoop(lines, i + 1, inCue, Append(textLines, trimmed))
       ELSE VttLoop(lines, i + 1, inCue, textLines)

parseVTT(lines) == VttLoop(lines, 1, FALSE, <<>>)

parseSRT(lines) ==
  LET Kept(trimmed) == ~IsDigits(trimmed) /\ trimmed # SrtCue /\ trimmed # <<>>
  IN SelectSeq(lines, Kept)

\* What a per-line loop pushes for one line: a sequence of zero or one line.
GoogleMeetLine(trimmed) ==
  IF StartsWithTime(trimmed) /\ Len(trimmed) > 1
    THEN IF IncludesColon(Tail(trimmed)) THEN <<Tail(trimmed)>>
         ELSE <<Append(Tail(trimmed), ":")>>
  ELSE IF trimmed # <<>> /\ ~isTimestampLine(trimmed) THEN <<trimmed>>
  ELSE <<>>

ZoomLine(trimmed) ==
  IF trimmed = <<"ZOOM">> THEN <<>>
  ELSE IF trimmed # <<>> /\ ~isTimestampLine(trimmed) THEN <<trimmed>>
  ELSE <<>>

TeamsLine(trimmed) ==
  IF trimmed = <<"Microsoft Teams">> THEN <<>>
  ELSE IF StartsWithTime(trimmed) /\ Len(trimmed) > 1 THEN <<Tail(trimmed)>>
  ELSE IF trimmed \in {VttCue, SrtCue} THEN <<CueRest(trimmed)>>
  ELSE IF trimmed # <<>> /\ ~isTimestampLine(trimmed) THEN <<trimmed>>
  ELSE <<>>

PlainLine(trimmed) ==
  IF trimmed = <<>> \/ isTimestampLine(trimmed) THEN <<>>
  ELSE LET cleanedLine == IF StartsWithTime(trimmed) THEN Tail(trimmed) ELSE trimmed
       IN IF Len(cleanedLine) > 0 THEN <<cleanedLine>> ELSE <<>>

RECURSIVE ParseLines(_, _)
ParseLines(lines, fmt) ==
  IF lines = <<>> THEN <<>>
  ELSE (IF fmt = "google_meet" THEN GoogleMeetLine(Head(lines))
        ELSE IF fmt = "zoom" THEN ZoomLine(Head(lines))
        ELSE IF fmt = "teams" THEN TeamsLine(Head(lines))
        ELSE PlainLine(Head(lines)))
       \o ParseLines(Tail(lines), fmt)

parseGoogleMeet(lines) == ParseLines(lines, "google_meet")

parseZoom(lines) == ParseLines(lines, "zoom")

parseTeams(lines) == ParseLines(lines, "teams")

cleanPlainTranscript(lines) == ParseLines(lines, "plain")

\* /^\d+\s*\n\d{2}:\d{2}:\d{2},\d{3}\s*-->\s*\d{2}:\d{2}:\d{2},\d{3}/m: a
\* number line, blank lines or none, an SRT cue timing
HasSrtEntry(lines) ==
  \E i, j \in DOMAIN lines :
    /\ i < j /\ IsDigits(lines[i]) /\ lines[j] = SrtCue
    /\ \A k \in (i + 1)..(j - 1) : lines[k] = <<>>

IncludesLine(lines, header) == \E k \in DOMAIN lines : lines[k] = header

\* The first ten lines are all the lines of a file of the model.
detectTranscriptFormat(lines) ==
  IF IncludesLine(lines, <<"WEBVTT">>) THEN "vtt"
  ELSE IF HasSrtEntry(lines) THEN "srt"
  ELSE IF IncludesLine(lines, <<"Google Meet">>) THEN "google_meet"
  ELSE IF IncludesLine(lines, <<"ZOOM">>) THEN "zoom"
  ELSE IF IncludesLine(lines, <<"Microsoft Teams">>) THEN "teams"
  ELSE "plain"

parseTranscript(lines) ==
  LET fmt == detectTranscriptFormat(lines) IN
  [content |-> IF fmt = "vtt" THEN parseVTT(lines)
               ELSE IF fmt = "srt" THEN parseSRT(lines)
               ELSE IF fmt = "google_meet" THEN parseGoogleMeet(lines)
               ELSE IF fmt = "zoom" THEN parseZoom(lines)
               ELSE IF fmt = "teams" THEN parseTeams(lines)
               ELSE cleanPlainTranscript(lines),
   format |-> fmt]

\* The parser on its own: any file content, then the call.
InitParse ==
  /\ store = [s \in SetIds |-> NoDoc]
  /\ lock = [s \in SetIds |-> 0]
  /\ clickup = <<>>
  /\ notified = {}
  /\ hs = [h \in Handlers |-> IdleH]
  /\ ps = [d \in Deliveries |-> IdleD]
  /\ clicks = 0
  /\ events = 0
  /\ ex = IdleE
  /\ transcript = <<>> /\ chunks = <<>>
  /\ analyses = <<>> /\ merged = <<>>
  /\ expression = <<>> /\ meetingDate = <<>> /\ resolved = <<>>
  /\ called = ""
  /\ rawContent \in RawContents
  /\ parsed = <<>>
  /\ watchers = [f \in Folders |-> NoWatcher]
  /\ channels = {}
  /\ ws = IdleW
  /\ now = 0
  /\ rt = IdleR

Parse ==
  /\ called = ""
  /\ called' = "parseTranscript"
  /\ parsed' = <<parseTranscript(rawContent)>>
  /\ UNCHANGED <<store, lock, clickup, notified, hs, ps, clicks, events, ex,
                 transcript, chunks, analyses, merged, expression, meetingDate,
                 resolved, rawContent, watchers, channels, ws, now, rt>>

SpecParse == InitParse /\ [][Parse]_vars

\* ------------------------------------------------------------ properties
Docs == {s \in SetIds : store[s].exists}

IsBulk(r) == r.op \in {"createAllTasks", "dismissAllTasks"}

\* The indices whose mark call, made by the handler with locals r, has returned.
Committed(r) ==
  IF r.op \in {"createTask", "dismissTask"}
    THEN IF r.pc = "done" /\ r.err = "" THEN {r.idx} ELSE {}
  ELSE IF r.op = "createAllTasks"
    THEN {j \in DOMAIN r.results : r.results[j] = "ok"}
  ELSE IF r.op = "dismissAllTasks"
    THEN {j \in DOMAIN r.pending : j < r.idx /\ ~IsResolved(r.pending[j])}
  ELSE {}

\* The stored candidate carries the resolution the handler's call wrote.
HasResolution(r, t) ==
  IF r.op \in {"createTask", "createAllTasks"} THEN t.cid # 0 ELSE t.dismissed

\* C1: resolution calls that have returned are all visible in the stored set,
\* whatever ran concurrently on other indices of the set: no update is lost.
C1_NoLostUpdate ==
  \A h \in Handlers : \A j \in Committed(hs[h]) :
    HasResolution(hs[h], store[hs[h].sid].tasks[j])

\* C1 witness: two single resolutions on different indices of one set have both
\* returned while both instances are still alive (they overlapped).
C1_Witness ==
  \E h1, h2 \in Handlers :
    /\ h1 # h2
    /\ hs[h1].op = "createTask" /\ hs[h2].op = "dismissTask"
    /\ hs[h1].pc = "done" /\ hs[h2].pc = "done"
    /\ hs[h1].err = "" /\ hs[h2].err = ""
    /\ hs[h1].sid = hs[h2].sid /\ hs[h1].idx # hs[h2].idx

\* C2: a terminal candidate (created or dismissed) keeps its resolution: no
\* step changes its external task id or its dismissed marker.
C2_TerminalNeverOverwritten ==
  [][\A s \in Docs : \A i \in DOMAIN store[s].tasks :
       IsResolved(store[s].tasks[i]) =>
         /\ store'[s].tasks[i].cid = store[s].tasks[i].cid
         /\ store'[s].tasks[i].dismissed = store[s].tasks[i].dismissed]_vars

\* C3: the status of a set is completed exactly when all its candidates are
\* terminal.
C3_CompletedIffAllTerminal ==
  \A s \in Docs :
    (store[s].status = "completed") <=> areAllTasksResolved(store[s].tasks)

\* C4: the commit of a single-candidate resolution sets the status to
\* completed when all candidates are then terminal, and leaves it unchanged
\* otherwise.
C4_CommitReevaluatesStatus ==
  [][\A h \in Handlers :
       (hs[h].pc = "markc" /\ hs'[h].pc # "markc") =>
         LET s == hs[h].sid IN
         store'[s].status =
           IF \A i \in DOMAIN store'[s].tasks : IsResolved(store'[s].tasks[i])
             THEN "completed" ELSE store[s].status]_vars

\* C4 witness: a bulk creation is in progress (it set the status to
\* processing) and a single resolution by another instance returned and
\* completed the set.
C4_Witness ==
  \E h1, h2 \in Handlers :
    /\ hs[h1].op = "createAllTasks" /\ hs[h1].pc \in {"create", "mark"}
    /\ hs[h2].op \in {"createTask", "dismissTask"}
    /\ hs[h2].pc = "done" /\ hs[h2].err = ""
    /\ hs[h2].sid = hs[h1].sid
    /\ store[hs[h1].sid].status = "completed"

\* C5: a completed set stays completed.
C5_CompletedIsFinal ==
  [][\A s \in Docs : store[s].status = "completed" =>
                       store'[s].status = "completed"]_vars

\* C6: a mark call on a missing set or an index out of range ends in an error
\* and changes nothing in the store; a mark call that commits sets exactly the
\* candidate at its index to created (with the given external id) or to
\* dismissed and re-evaluates the completion of the set.
C6_MarkContract ==
  [][\A h \in Handlers :
       LET r == hs[h]  s == r.sid IN
       /\ (r.pc = "mark" /\ hs'[h] # r
            /\ (~store[s].exists \/ r.idx \notin DOMAIN store[s].tasks)) =>
            /\ store' = store
            /\ hs'[h].pc = "done"
            /\ hs'[h].err \in {"Unavailable",
                               IF store[s].exists THEN "InvalidIndex" ELSE "NotFound"}
       /\ (r.pc = "markc" /\ hs'[h].pc # "markc") =>
            /\ store'[s].tasks =
                 [store[s].tasks EXCEPT ![r.idx] =
                    IF r.op \in {"createTask", "createAllTasks"}
                      THEN [@ EXCEPT !.cid = r.ext]
                      ELSE [@ EXCEPT !.dismissed = TRUE]]
            /\ store'[s].status =
                 (IF areAllTasksResolved(store'[s].tasks)
                    THEN "completed" ELSE store[s].status)
            /\ \A s2 \in SetIds \ {s} : store'[s2] = store[s2]]_vars

\* C6 witness: one call has failed on a missing set and another on an index
\* out of range of an existing set.
C6_Witness ==
  \E h1, h2 \in Handlers :
    /\ hs[h1].err = "NotFound" /\ ~store[hs[h1].sid].exists
    /\ hs[h2].err = "InvalidIndex" /\ store[hs[h2].sid].exists

\* C7: every file that has a set is reported as already processed, whatever
\* the status of the set; a file without a set is not.
C7_ProcessedWhileSetExists ==
  /\ \A s \in Docs : isFileAlreadyProcessed(store[s].fileId)
  /\ \A f \in Files : (\A s \in Docs : store[s].fileId # f) =>
                        ~isFileAlreadyProcessed(f)

\* C7 witness: a set that left the pending status; its file is still reported.
C7_Witness ==
  \E s \in Docs : /\ store[s].status = "completed"
                  /\ isFileAlreadyProcessed(store[s].fileId)

\* C8: a delivery whose check finds a set of its file (in any status) returns
\* at once: it fetches nothing, stores nothing and notifies nobody.
C8_RedeliverySkipped ==
  [][\A d \in Deliveries :
       (/\ ps[d].pc = "check" /\ ps'[d].pc # "check"
        /\ \E s \in Docs : store[s].fileId = ps[d].file) =>
         /\ ps'[d].pc = "done" /\ ps'[d].out = "skipped"
         /\ ~ps'[d].fetched /\ ps'[d].sid = 0
         /\ store' = store /\ notified' = notified]_vars

\* C8 witness: a delivery was skipped for a file whose set is already completed.
C8_Witness ==
  \E d \in Deliveries : \E s \in Docs :
    /\ ps[d].out = "skipped" /\ store[s].fileId = ps[d].file
    /\ store[s].status = "completed"

\* The candidates a finished or running bulk call has attempted to resolve.
Attempted(r) ==
  IF r.op = "createAllTasks" THEN {j \in DOMAIN r.results : r.results[j] # "none"}
  ELSE {j \in DOMAIN r.pending : ~IsResolved(r.pending[j]) /\ j <= r.idx}

\* C9: when a bulk call has ended, every candidate that was eligible in it has
\* been attempted, also when the resolution of one of them failed.
C9_BulkFailureIsolated ==
  \A h \in Handlers :
    (IsBulk(hs[h]) /\ hs[h].pc = "done" /\ hs[h].pending # <<>>) =>
      \A j \in DOMAIN hs[h].pending :
        ~IsResolved(hs[h].pending[j]) => j \in Attempted(hs[h])

\* C10: during a bulk call the candidates it resolved so far are resolved in
\* the store, and each of its steps writes only the candidate at its current
\* loop index: the candidates after it are untouched by the call.
C10_BulkSequentialDurable ==
  /\ [](\A h \in Handlers : IsBulk(hs[h]) =>
          \A j \in Committed(hs[h]) :
            HasResolution(hs[h], store[hs[h].sid].tasks[j]))
  /\ [][\A h \in Handlers :
          (IsBulk(hs[h]) /\ hs'[h] # hs[h] /\ hs[h].pending # <<>>) =>
            /\ \A j \in DOMAIN store[hs[h].sid].tasks :
                 j # hs[h].idx =>
                   store'[hs[h].sid].tasks[j] = store[hs[h].sid].tasks[j]
            /\ clickup' # clickup =>
                 /\ Len(clickup') = Len(clickup) + 1
                 /\ SubSeq(clickup', 1, Len(clickup)) = clickup
                 /\ clickup'[Len(clickup')].sid = hs[h].sid
                 /\ clickup'[Len(clickup')].idx = hs[h].idx]_vars

\* C10 witness: a bulk creation has committed its first candidate and is about
\* to create the second, which is still untouched.
C10_Witness ==
  \E h \in Handlers :
    /\ hs[h].op = "createAllTasks" /\ hs[h].pc = "create" /\ hs[h].idx = 2
    /\ hs[h].results[1] = "ok"
    /\ store[hs[h].sid].tasks[1].cid # 0
    /\ ~IsResolved(store[hs[h].sid].tasks[2])

C12_ExtractTasksTerminates ==
  (ex.pc = "enter") ~> (ex.pc \in {"done", "failed"})

\* C13: when a step before the store step fails (the Drive fetches, or the
\* extraction failing on both models for the content or for one chunk),
\* processTranscript stores no set for the file, not even from the chunks
\* whose extraction succeeded; nothing is stored while the extraction runs.
C13_NoPartialPersistence ==
  \A d \in Deliveries :
    (\/ ps[d].out = "failed"
     \/ (ps[d].pc = "extract" /\ ex.pc # "idle"))
    => ~\E s \in SetIds : store[s].exists /\ store[s].fileId = ps[d].file

\* The extraction of a later chunk failed on both models after an earlier
\* chunk had yielded a task that passes the confidence filter.
C13_Witness ==
  /\ ex.pc = "failed"
  /\ Len(ex.stack) = 1
  /\ \E k \in DOMAIN ex.stack[1].results :
       ConfidenceFilter(ex.stack[1].results[k].tasks) # <<>>
  /\ ps[1].pc = "extract"
  /\ \A s \in SetIds : ~store[s].exists

\* C14: the chunks of splitTranscriptIntoChunks, concatenated in order,
\* reproduce the sequence of lines of the content exactly: no line is dropped,
\* duplicated or reordered.
C14_ChunksReproduceLines ==
  (called = "splitTranscriptIntoChunks" /\ Len(transcript) > MaxCharsPerChunk)
  => Flatten([k \in DOMAIN chunks |-> SplitLines(chunks[k], <<>>)])
       = SplitLines(transcript, <<>>)

HasNewline(str) == \E k \in DOMAIN str : str[k] = "\n"

\* A chunk is within the limit, or it is one single line longer than the limit.
ChunkSizeOk(chunk) == Len(chunk) <= MaxCharsPerChunk \/ ~HasNewline(chunk)

\* The extraction was given content within the limit and handles it itself.
Unchunked ==
  /\ ex.stack = <<>>
  /\ ex.content = transcript
  /\ ex.pc \in {"enter", "primary", "fallback", "return", "done", "failed"}

C16_MergeIdentity ==
  (called = "mergeChunkResults" /\ Len(analyses) = 1) => merged[1] = analyses[1]

\* The candidates handed to the merge, in order.
AllTasks == Flatten([i \in DOMAIN analyses |-> analyses[i].tasks])

Survives(task) == \E k \in DOMAIN merged[1].tasks : merged[1].tasks[k] = task

\* The candidate of a duplicate pair that is to be kept: the one with strictly
\* higher confidence, the explicit one on a tie; on a full tie either.
Preferred(t1, t2) ==
  IF t1.confidence # t2.confidence
    THEN {IF t1.confidence > t2.confidence THEN t1 ELSE t2}
  ELSE IF t1.extraction_type # t2.extraction_type
    THEN {IF t1.extraction_type = "explicit" THEN t1 ELSE t2}
  ELSE {t1, t2}

\* Two candidates of the input are duplicates of each other.
Duplicates(t1, t2) ==
  areTitlesSimilar(NormalizeTitle(t1.title), NormalizeTitle(t2.title))

\* C17: of two duplicate candidates in the merged input (equal normalized
\* titles, one title contained in the other, or word overlap above 0.7 of the
\* smaller word set) exactly one survives the merge: the one with strictly
\* higher confidence, or the explicit one when the confidences are equal.
\* Pairs that have a common duplicate are left out: of three candidates that
\* are duplicates of one another no merge can keep one of every pair.
C17_OneDuplicateSurvives ==
  called = "mergeChunkResults" =>
    \A i, j \in DOMAIN AllTasks :
      LET t1 == AllTasks[i]
          t2 == AllTasks[j]
      IN (/\ i < j /\ t1 # t2
          /\ Duplicates(t1, t2)
          /\ \A k \in DOMAIN AllTasks \ {i, j} :
               ~(Duplicates(AllTasks[k], t1) /\ Duplicates(AllTasks[k], t2)))
         => /\ Survives(t1) # Survives(t2)
            /\ \E t \in Preferred(t1, t2) : Survives(t)

\* The expression names a weekday after one of the given words.
IsWeekdayExpression(expr, words) ==
  /\ Len(expr) = 2
  /\ ToLowerCase(expr)[1] \in words
  /\ ToLowerCase(expr)[2] \in WeekdayNames

\* Days from the reference date to the resolved date.
DaysAhead == ToDays(parseISO(resolved[1])) - ToDays(parseISO(meetingDate))

\* C18: for `next <weekday>`, `this <weekday>` and `by <weekday>` and every
\* reference date the resolved date falls on the named weekday and is strictly
\* after the reference date; when the reference date is itself that weekday
\* the result is exactly 7 days later.
C18_WeekdayInFuture ==
  (/\ called = "resolveDateExpression"
   /\ isValid(meetingDate)
   /\ IsWeekdayExpression(expression, {"next", "this", "by"}))
  => /\ resolved[1] # Null
     /\ getDay(parseISO(resolved[1])) = getDayIndex(ToLowerCase(expression)[2])
     /\ DaysAhead > 0
     /\ getDay(parseISO(meetingDate)) = getDayIndex(ToLowerCase(expression)[2])
          => DaysAhead = 7

MonthOrder == <<"january", "february", "march", "april", "may", "june", "july",
                "august", "september", "october", "november", "december">>
QuarterOrder == <<"q1", "q2", "q3", "q4">>

\* The word of a quarter or month-name expression that names the period.
PeriodWord(expr) == ToLowerCase(expr)[Len(expr)]

IsQuarterExpression(expr) ==
  Len(expr) = 1 /\ \E q \in 1..4 : PeriodWord(expr) = QuarterOrder[q]

IsMonthExpression(expr) ==
  /\ Len(expr) \in {1, 2}
  /\ Len(expr) = 2 => ToLowerCase(expr)[1] \in {"by", "in"}
  /\ \E m \in 1..12 : PeriodWord(expr) = MonthOrder[m]

\* The last month (1..12) of the period an expression names.
EndMonth(expr) ==
  IF IsQuarterExpression(expr)
    THEN 3 * (CHOOSE q \in 1..4 : PeriodWord(expr) = QuarterOrder[q])
    ELSE CHOOSE m \in 1..12 : PeriodWord(expr) = MonthOrder[m]

\* C19: for Q1..Q4 and month names the result is the last day of the
\* period's end month, in the next calendar year when that month is strictly
\* before the month of the reference date and in the reference year
\* otherwise; it is never earlier than the reference date.
C19_PeriodEndRollsOver ==
  (/\ called = "resolveDateExpression"
   /\ isValid(meetingDate)
   /\ IsQuarterExpression(expression) \/ IsMonthExpression(expression))
  => LET r == resolved[1] IN
     /\ r # Null
     /\ r[2] = EndMonth(expression)
     /\ isValid(r) /\ ~isValid(<<r[1], r[2], r[3] + 1>>)
     /\ r[1] = IF EndMonth(expression) < meetingDate[2]
                 THEN meetingDate[1] + 1 ELSE meetingDate[1]
     /\ ToDays(parseISO(r)) >= ToDays(parseISO(meetingDate))

\* A month name whose month is over in the reference year was resolved to the
\* leap day of the next year.
C19_Witness ==
  /\ called = "resolveDateExpression"
  /\ IsMonthExpression(expression) /\ Len(expression) = 2
  /\ EndMonth(expression) = 2
  /\ meetingDate[2] > 2
  /\ resolved[1] = <<meetingDate[1] + 1, 2, 29>>

\* C20: "next Friday" with reference 2026-02-03 (a Tuesday) gives 2026-02-06,
\* "eom" with reference 2026-02-03 gives 2026-02-28, and "Q1" with reference
\* 2026-04-01 gives 2027-03-31.
C20_ResolvedExamples ==
  called = "resolveDateExpression" =>
    /\ (expression = <<"next", "Friday">> /\ meetingDate = <<2026, 2, 3>>)
         => (resolved[1] = <<2026, 2, 6>> /\ getDay(parseISO(meetingDate)) = 2)
    /\ (expression = <<"eom">> /\ meetingDate = <<2026, 2, 3>>)
         => resolved[1] = <<2026, 2, 28>>
    /\ (expression = <<"Q1">> /\ meetingDate = <<2026, 4, 1>>)
         => resolved[1] = <<2027, 3, 31>>

\* "Q1" was resolved for the reference date 2026-04-01.
C20_Witness ==
  /\ called = "resolveDateExpression"
  /\ expression = <<"Q1">>
  /\ meetingDate = <<2026, 4, 1>>
  /\ resolved = << <<2027, 3, 31>> >>

\* The day count of the first day of the week of a date, the week starting on
\* weekStartsOn (0 = Sunday, 1 = Monday).
StartOfWeek(date, weekStartsOn) ==
  ToDays(date) - ((getDay(date) - weekStartsOn + 7) % 7)

\* C21: "end of week" / "eow" resolves to the Friday of the week of the
\* reference date, for every reference date (the week taken as Monday to
\* Sunday or as Sunday to Saturday).
C21_EndOfWeekIsFridayOfWeek ==
  (/\ called = "resolveDateExpression"
   /\ isValid(meetingDate)
   /\ expression \in {<<"eow">>, <<"end", "of", "week">>})
  => /\ resolved[1] # Null
     /\ getDay(parseISO(resolved[1])) = 5
     /\ \E weekStartsOn \in {0, 1} :
          StartOfWeek(parseISO(resolved[1]), weekStartsOn)
            = StartOfWeek(parseISO(meetingDate), weekStartsOn)

\* A string of the form YYYY-MM-DD: four, two and two digits.
IsYyyyMmDd(value) ==
  /\ value[1] \in 0..9999
  /\ value[2] \in 0..99
  /\ value[3] \in 0..99

\* C22: after post-processing every candidate's suggested due date is absent
\* (null or empty) or a YYYY-MM-DD string: a value already of that form is
\* unchanged, any other present value is replaced by the resolver's result for
\* the reference date, and an unmatched expression becomes absent.
C22_DueAbsentOrIsoDate ==
  /\ called # "postProcessAnalysis throws"
  /\ called = "postProcessAnalysis" =>
       \A k \in DOMAIN merged[1].tasks :
         LET before == analyses[1].tasks[k].suggested_due
             after == merged[1].tasks[k].suggested_due
         IN /\ ~Truthy(after) \/ (after.form = "date" /\ IsYyyyMmDd(after.value))
            /\ (~Truthy(before) \/ isISODate(before)) => after = before
            /\ (Truthy(before) /\ ~isISODate(before)) =>
                 after = DueOf(resolveDateExpression(before.value, meetingDate))
            /\ before.value = <<"someday">> => after = NoDue

\* C23: no step of any operation on a stored set (resolving a candidate as
\* created or dismissed, editing it, a status update, the bulk operations)
\* changes the number or the order of its candidates: the set keeps its
\* length and the candidate at index i (told by its source quote) stays at i.
C23_CandidatesKeepIndex ==
  [][\A s \in SetIds : store[s].exists =>
       /\ store'[s].exists
       /\ Len(store'[s].tasks) = Len(store[s].tasks)
       /\ \A i \in DOMAIN store[s].tasks :
            store'[s].tasks[i].source_quote = store[s].tasks[i].source_quote]_vars

\* C23 witness: the first candidate was created, the second was dismissed,
\* the set is completed, and both are where they were stored.
C23_Witness ==
  /\ store[1].status = "completed"
  /\ Len(store[1].tasks) = MaxTasks
  /\ store[1].tasks[1].cid # 0
  /\ store[1].tasks[2].dismissed
  /\ \A i \in DOMAIN store[1].tasks : store[1].tasks[i].source_quote = Quote(i)

\* C24: updateTaskDetails overwrites fields of the one candidate at the index
\* only: its commit leaves the candidate's resolution markers (the external
\* task id and the dismissed flag), every other candidate and the status of
\* the set as they are stored, and a call that fails changes nothing.
C24_UpdateKeepsMarkersAndOthers ==
  [][\A h \in Handlers :
       /\ (hs[h].pc = "upd" /\ hs'[h].pc # "upd") => store' = store
       /\ (hs[h].pc = "updc" /\ hs'[h].pc # "updc") =>
            LET s == hs[h].sid  i == hs[h].idx IN
            /\ store'[s].status = store[s].status
            /\ Len(store'[s].tasks) = Len(store[s].tasks)
            /\ \A j \in DOMAIN store[s].tasks :
                 j # i => store'[s].tasks[j] = store[s].tasks[j]
            /\ store'[s].tasks[i].cid = store[s].tasks[i].cid
            /\ store'[s].tasks[i].dismissed = store[s].tasks[i].dismissed]_vars

\* C25: every candidate of every stored set passed the confidence filter: it
\* is explicit or its confidence is at least the configured threshold.
C25_StoredPassedFilter ==
  \A s \in SetIds : store[s].exists =>
    \A i \in DOMAIN store[s].tasks :
      \/ store[s].tasks[i].extraction_type = "explicit"
      \/ store[s].tasks[i].confidence >= confidenceThreshold

\* C25 witness: the merged analysis had a task below the threshold and an
\* implicit one above it; the set was stored with the latter only.
C25_Witness ==
  /\ ps[1].pc = "notify"
  /\ \E k \in DOMAIN ps[1].analysis :
       /\ ps[1].analysis[k].extraction_type = "implicit"
       /\ ps[1].analysis[k].confidence < confidenceThreshold
  /\ Len(store[ps[1].sid].tasks) = 1
  /\ store[ps[1].sid].tasks[1].extraction_type = "implicit"

\* C26: every candidate the extraction returns for schema-valid responses,
\* and every candidate processTranscript then stores, has confidence 1.0 when
\* its extraction type is explicit.
C26_ExplicitHasFullConfidence ==
  called = "mergeChunkResults" =>
    LET stored == tasksWithConfig(ConfidenceFilter(merged[1].tasks), FALSE) IN
    /\ \A k \in DOMAIN merged[1].tasks :
         merged[1].tasks[k].extraction_type = "explicit" =>
           merged[1].tasks[k].confidence = 10
    /\ \A k \in DOMAIN stored :
         stored[k].extraction_type = "explicit" => stored[k].confidence = 10

\* C27: for a set of a confidential folder every stored candidate has the
\* redaction marker as its source quote and a title (not the extracted
\* description) as its description; the card built from the candidate shows no
\* quote, and the description of every external task created from the set
\* carries no quote and no extracted description.
C27_ConfidentialRedacted ==
  /\ \A s \in SetIds : (store[s].exists /\ store[s].confidential) =>
       \A i \in DOMAIN store[s].tasks :
         /\ store[s].tasks[i].source_quote = ConfidentialMarker
         /\ store[s].tasks[i].description \in Titles
         /\ buildTaskCard(store[s].tasks[i]).source = <<>>
  /\ \A k \in DOMAIN clickup : store[clickup[k].sid].confidential =>
       /\ clickup[k].description.source = <<>>
       /\ clickup[k].description.text \in Titles

\* C27 witness: a candidate of a confidential set was edited and created in
\* the task tracker; its description is the title it was stored with.
C27_Witness ==
  \E k \in DOMAIN clickup :
    /\ store[clickup[k].sid].confidential
    /\ store[clickup[k].sid].tasks[clickup[k].idx].title = "edited"
    /\ store[clickup[k].sid].tasks[clickup[k].idx].cid = k
    /\ clickup[k].description.text = "orig"

\* C28: for every supported format the content parseTranscript returns has no
\* line that is only a timestamp and no line that is only a sequence number.
C28_NoTimestampOrNumberLines ==
  called = "parseTranscript" =>
    \A k \in DOMAIN parsed[1].content :
      /\ parsed[1].content[k] \notin {<<"10:30">>, VttCue, SrtCue}
      /\ parsed[1].content[k] # <<"12">>

\* C29: a setup or renewal creates the new channel of a folder only when the
\* channel recorded for the folder before is no longer active, and when the
\* setup has completed the one record of the folder describes the new channel.
C29_OldStoppedBeforeNew ==
  /\ [](ws.pc = "done" /\ ws.out = "ok" =>
          /\ watchers[ws.folderId].exists
          /\ watchers[ws.folderId].channelId = ws.channelId)
  /\ [][(ws.pc = "watch" /\ ws'.pc = "store" /\ watchers[ws.folderId].exists) =>
          watchers[ws.folderId].channelId \notin channels]_vars

\* C30: the chunks of a transcript are sent one after the other in chunk
\* order: while chunk i is being extracted (primary or fallback call) the
\* results of exactly the chunks before i have been collected, one delay has
\* been awaited after each of them, and the results are held in chunk order.
C30_ChunksSequential ==
  \A k \in DOMAIN ex.stack :
    LET f == ex.stack[k]
        n == Len(f.results)
    IN /\ f.order = [j \in 1..n |-> j]
       /\ n = f.i - 1 \/ (n = f.i /\ k = Len(ex.stack) /\ ex.pc = "merge")
       /\ f.chunks # <<>> =>
            f.sleeps = IF n < Len(f.chunks) THEN n ELSE Len(f.chunks) - 1
       /\ (k = Len(ex.stack) /\ ex.pc \in {"primary", "fallback"}) =>
            /\ ex.content = f.chunks[f.i]
            /\ n = f.i - 1
            /\ \A c \in DOMAIN ex.calls : ex.calls[c].prompt = f.chunks[f.i]

\* The fallback call of the second chunk, after the result of the first.
C30_Witness ==
  /\ ex.pc = "fallback"
  /\ ex.stack # <<>>
  /\ ex.stack[1].i = 2
  /\ Len(ex.stack[1].results) = 1
  /\ ex.stack[1].sleeps = 1
  /\ Len(ex.calls) = 1

\* t1 is strictly stronger than t2: higher confidence, or explicit against
\* implicit at equal confidence.
Stronger(t1, t2) ==
  \/ t1.confidence > t2.confidence
  \/ /\ t1.confidence = t2.confidence
     /\ t1.extraction_type = "explicit" /\ t2.extraction_type = "implicit"

\* C31: the merge of two duplicate candidates keeps the strictly stronger one
\* in either processing order, and the earlier one when neither is stronger.
C31_StrongerKeptEitherOrder ==
  (called = "mergeChunkResults" /\ Len(AllTasks) = 2
     /\ Duplicates(AllTasks[1], AllTasks[2])) =>
    LET a == AllTasks[1]
        b == AllTasks[2]
        forward == merged[1].tasks
        backward == deduplicateTasks(<<b, a>>)
    IN IF Stronger(a, b) THEN forward = <<a>> /\ backward = <<a>>
       ELSE IF Stronger(b, a) THEN forward = <<b>> /\ backward = <<b>>
       ELSE forward = <<a>> /\ backward = <<b>>

\* The dedup keys held after the first n candidates have been processed.
KeysAfter(n) ==
  LET kept == deduplicateTasks(SubSeq(AllTasks, 1, n))
  IN {NormalizeTitle(kept[k].title) : k \in DOMAIN kept}

\* The step at which the key was inserted for the first time.
FirstInserted(key) ==
  CHOOSE n \in DOMAIN AllTasks :
    /\ key \in KeysAfter(n)
    /\ \A m \in 1..(n - 1) : key \notin KeysAfter(m)

\* C32: the merged candidates are in the order in which their dedup keys were
\* first inserted during processing.
C32_OrderOfFirstInsertion ==
  called = "mergeChunkResults" =>
    \A p, q \in DOMAIN merged[1].tasks :
      p < q => FirstInserted(NormalizeTitle(merged[1].tasks[p].title))
                 < FirstInserted(NormalizeTitle(merged[1].tasks[q].title))

\* C33: a candidate recorded as created carries the id of an external task
\* that the task tracker created for this candidate of this set; and a step in
\* which the creation fails leaves the store as it is and does not go on to
\* mark the candidate.
C33_CreatedOnlyAfterCreation ==
  /\ [](\A s \in SetIds : \A i \in DOMAIN store[s].tasks :
          store[s].tasks[i].cid # 0 =>
            /\ store[s].tasks[i].cid \in DOMAIN clickup
            /\ clickup[store[s].tasks[i].cid].sid = s
            /\ clickup[store[s].tasks[i].cid].idx = i)
  /\ [][\A h \in Handlers :
          (hs[h].pc = "create" /\ hs'[h] # hs[h] /\ clickup' = clickup) =>
            /\ store' = store
            /\ hs'[h].pc \notin {"mark", "markc"}]_vars

\* A single creation has failed: its handler ended with the tracker's error
\* and the candidate is not created; the other candidate has been created.
C33_Witness ==
  /\ \E h \in Handlers :
       /\ hs[h].pc = "done" /\ hs[h].op = "createTask" /\ hs[h].err = "ClickUp"
       /\ hs[h].sid = 1 /\ hs[h].idx = 1
  /\ store[1].tasks[1].cid = 0
  /\ store[1].tasks[2].cid = 1
  /\ Len(clickup) = 1

\* C34: the task tracker holds at most one external task for every candidate
\* of a pending set.
C34_AtMostOneExternalTask ==
  \A k1, k2 \in DOMAIN clickup :
    (clickup[k1].sid = clickup[k2].sid /\ clickup[k1].idx = clickup[k2].idx) => k1 = k2

\* C35: at most one pending set is stored for a file id.
C35_OneSetPerFile ==
  \A s1, s2 \in SetIds :
    (store[s1].exists /\ store[s2].exists /\ store[s1].fileId = store[s2].fileId)
      => s1 = s2

\* C36: no two candidates of a merged list are duplicates of each other.
C36_NoDuplicateSurvivors ==
  called = "mergeChunkResults" =>
    \A p, q \in DOMAIN merged[1].tasks :
      p # q => ~Duplicates(merged[1].tasks[p], merged[1].tasks[q])

\* C37: the stored document of a set of a confidential folder holds no source
\* quote of the transcript, neither in its candidates nor in its analysis.
C37_NoQuoteInConfidentialDocument ==
  \A s \in SetIds : (store[s].exists /\ store[s].confidential) =>
    /\ \A i \in DOMAIN store[s].tasks : store[s].tasks[i].source_quote[1] # "quote"
    /\ \A k \in DOMAIN store[s].analysis : store[s].analysis[k][1] # "quote"

\* C38: every set that processTranscript has stored has at least one
\* candidate, all of which passed the confidence filter, and status pending;
\* a run that ended because no task was extracted or none passed the filter
\* has stored nothing, so that the file still counts as not processed.
C38_StoredSetNonEmptyPending ==
  /\ \A s \in SetIds : store[s].exists =>
       /\ store[s].tasks # <<>>
       /\ store[s].status = "pending"
       /\ \A i \in DOMAIN store[s].tasks :
            \/ store[s].tasks[i].extraction_type = "explicit"
            \/ store[s].tasks[i].confidence >= confidenceThreshold
  /\ \A d \in Deliveries : (ps[d].pc = "done" /\ ps[d].out = "empty") =>
       ~isFileAlreadyProcessed(ps[d].file)

\* A run ended with no candidate to store: nothing is stored.
C38_Witness ==
  /\ ps[1].pc = "done" /\ ps[1].out = "empty" /\ ps[1].fetched
  /\ \A s \in SetIds : ~store[s].exists

\* What a withRetry call has done so far agrees with its contract: at most
\* maxRetries + 1 calls of the operation, each but the first after a
\* rate-limited call and a wait; the result of the first successful call is
\* returned; another error is thrown right after the call that raised it;
\* after maxRetries + 1 rate-limited calls the last error is thrown.
RetryContract ==
  LET n == Len(rt.log) IN
  /\ n <= rt.maxRetries + 1
  /\ \A k \in 1..(n - 1) : rt.log[k] = "429"
  /\ rt.pc = "call" => Len(rt.waits) = n /\ (n = 0 \/ rt.log[n] = "429")
  /\ rt.pc = "done" =>
       /\ n >= 1
       /\ rt.log[n] = "ok" =>
            rt.out = <<[kind |-> "return", call |-> n]>> /\ Len(rt.waits) = n - 1
       /\ rt.log[n] = "500" =>
            /\ rt.out = <<[kind |-> "throw", error |-> [call |-> n, status |-> "500"]]>>
            /\ Len(rt.waits) = n - 1
       /\ rt.log[n] = "429" =>
            /\ n = rt.maxRetries + 1
            /\ rt.out = <<[kind |-> "throw", error |-> [call |-> n, status |-> "429"]]>>

\* C39: withRetry calls the operation at most maxRetries + 1 times, retries
\* only after a rate-limit error and a wait, returns the first successful
\* result, throws another error at once and the last rate-limit error after
\* maxRetries + 1 of them, and always ends.
C39_WithRetryBoundedAndEnds ==
  /\ []RetryContract
  /\ <>(rt.pc = "done")

\* Every attempt of a call with three retries was rate limited: four calls,
\* and the error of the fourth is thrown.
C39_Witness ==
  /\ rt.pc = "done" /\ rt.maxRetries = 3
  /\ rt.log = <<"429", "429", "429", "429">>
  /\ rt.out = <<[kind |-> "throw", error |-> [call |-> 4, status |-> "429"]]>>

====
